---- MODULE Spec2Model ----
(***************************************************************************)
(* Object store adapters of influxdb_iox.                                   *)
(*                                                                         *)
(* Spec       the S3 retry executor (s3_request), the paginated listing    *)
(*            engine (stream::unfold over ListState) of the S3 and Azure   *)
(*            adapters, and list_with_delimiter of the S3, Azure and GCS   *)
(*            adapters. One caller runs one operation (`op`) against one   *)
(*            adapter (`adapter`).                                         *)
(* SpecGate   the connection semaphore of the S3 adapter: concurrent calls *)
(*            that each take a SemaphoreClient from AmazonS3::client;      *)
(*            SpecGateFair adds the fairness of the runtime's polling.     *)
(* SpecStore  put, get and delete of the three adapters against a bucket.  *)
(* SpecConfig the construction of the S3 adapter by new_s3.                *)
(* SpecCache  the local file system cache in front of a remote store.      *)
(* SpecMock   the MockClient of the router under concurrent writes.        *)
(* SpecPage   the closure of the S3 listing stream run on two responses.   *)
(* SpecFold   the try_fold of the S3 list_with_delimiter.                  *)
(* SpecNested calls on the S3 client by tasks that hold a list stream.     *)
(* SpecScan   scan_batch of the system tables.                             *)
(* SpecTrace  send_metrics_to_tracing over a physical plan.                *)
(*                                                                         *)
(* The backend is the environment: every network request is answered by a  *)
(* response chosen nondeterministically from a small alphabet.             *)
(***************************************************************************)
EXTENDS Integers, Sequences, FiniteSets, TLC

VARIABLES
    adapter,    \* "s3" | "azure" | "gcs": the backend adapter in use
    op,         \* "put" | "delete" | "list" | "lwd": the operation invoked
    pc,         \* position of the caller / of the future being polled
    state,      \* ListState of the listing stream (unfold seed)
    ended,      \* the listing stream has returned end-of-stream (None)
    curTok,     \* continuation_token captured by the page request closure
    attempts,   \* s3_request: `attempts`
    calls,      \* s3_request: number of future_factory() calls so far
    outcomes,   \* s3_request: results of the awaited requests, in order
    sleeps,     \* s3_request: wait times (ms) slept so far, in order
    reqs,       \* listing: continuation token of every network request issued
    outstanding,\* number of network requests in flight
    pages,      \* backend: the pages served so far, in order
    yielded,    \* listing: items the stream has produced, in order
    pulls,      \* listing: number of times the stream has been polled
    lastPull,   \* what the most recent poll produced: "none"|"item"|"end"
    acc,        \* list_with_delimiter on S3: the try_fold accumulator
    result      \* outcome of put / delete / list_with_delimiter

engineVars == <<adapter, op, pc, state, ended, curTok, attempts, calls,
                outcomes, sleeps, reqs, outstanding, pages, yielded, pulls,
                lastPull, acc, result>>

\* the connection semaphore and the concurrent calls of one AmazonS3 client
VARIABLES
    max_connections,      \* new_s3: the configured connection limit
    connection_semaphore, \* AmazonS3: permits available in the semaphore
    waiters,              \* tasks queued in acquire_owned, oldest first
    t_op,                 \* per task: the operation it calls ("none" before)
    t_pc,                 \* per task: where the call stands
    t_attempts,           \* per task: `attempts` of its s3_request
    t_state,              \* per task: ListState of its listing stream
    permit,               \* per task: it owns a SemaphoreClient (a permit)
    acquired,             \* per task: number of permits it has acquired
    cancelled             \* per task: where it stood when it was dropped

gateVars == <<max_connections, connection_semaphore, waiters, t_op, t_pc,
              t_attempts, t_state, permit, acquired, cancelled>>

\* one caller's put, get and delete against the bucket of one adapter
VARIABLES
    s_adapter,   \* "s3" | "azure" | "gcs" ("none" in the other specifications)
    bucket,      \* backend: key -> Option<bytes>, the objects of the bucket
    history,     \* per key: "never" written | "written" | "deleted", as the
                 \* caller was told by the calls that returned Ok
    s_call,      \* Option of the call in progress: [op, key, data]
    s_pc,        \* "idle" | "stream" | "await" | "sleep"
    s_attempts,  \* s3_request: `attempts` of the call in progress
    s_requests,  \* network requests the call in progress has issued
    s_last       \* Option of the record of the call that resolved last

storeVars == <<s_adapter, bucket, history, s_call, s_pc, s_attempts,
               s_requests, s_last>>

\* the arguments and the result of new_s3
VARIABLES
    access_key_id,      \* Option<String>
    secret_access_key,  \* Option<String>
    session_token,      \* Option<String>
    region,             \* the region string
    endpoint,           \* Option<String>: a custom endpoint
    new_s3_result       \* Option of the Result new_s3 returned

cfgVars == <<access_key_id, secret_access_key, session_token, region,
             endpoint, new_s3_result>>

\* the local file system cache and its concurrent callers
VARIABLES
    c_limit,    \* limit(): the configured limit in bytes
    c_sizes,    \* remote store: key -> size in bytes of the object
    c_entries,  \* the keys that have a cache entry, least recently
                \* accessed first
    c_pc,       \* per caller: "idle" | "fetch" (miss, remote get in flight)
                \* | "read" (has the path, reads the file: the lease)
    c_key,      \* per caller: Option of the key of its call
    c_event     \* what the step taken last did to the cache

cacheVars == <<c_limit, c_sizes, c_entries, c_pc, c_key, c_event>>

\* the MockClient of the router and the tasks that call it
VARIABLES
    writes,           \* MockClient.writes
    poisoned,         \* MockClient.poisoned
    m_pc,             \* per task: "idle" | "called" (future made, not yet
                      \* polled) | "checked" (flag read, write not pushed)
    m_arg,            \* per task: Option of its call: db_name, write, the
                      \* serial number of the call and whether poison()
                      \* had returned when it was made
    m_pushed,         \* the calls behind the recorded writes, in the
                      \* order of their pushes
    m_result,         \* per task: Option of the Result of its last call
    m_started,        \* number of write calls made so far
    poison_returned,  \* poison() has returned
    writes_at_poison  \* the recorded writes when poison() returned

mockVars == <<writes, poisoned, m_pc, m_arg, m_pushed, m_result, m_started,
              poison_returned, writes_at_poison>>

\* two runs of the closure of the listing stream, side by side
VARIABLES
    p_resp,   \* the two page responses
    p_state,  \* the state each run of the closure returns
    p_req,    \* Option of the token of the request that follows
    p_pc      \* "resp" | "state" | "done"

pairVars == <<p_resp, p_state, p_req, p_pc>>

\* the try_fold of list_with_delimiter over the pages of a listing
VARIABLES
    f_items,   \* the items of the stream it has taken so far
    f_acc,     \* the accumulator: the ListResult so far
    f_result   \* Option of what list_with_delimiter returned

foldVars == <<f_items, f_acc, f_result>>

\* tasks that call the S3 client while they hold a list stream of it
VARIABLES
    n_max,        \* max_connections of the client
    n_semaphore,  \* permits available in connection_semaphore
    n_waiters,    \* queue of the pending acquire_owned: <<task, "list" | "call">>
    n_stream,     \* per task: its list stream, "none" | "acquire" | "open" | "dropped"
    n_call,       \* per task: its put, get or delete, "none" | "acquire" | "await" | "done"
    n_op          \* per task: the operation of that call

nestedVars == <<n_max, n_semaphore, n_waiters, n_stream, n_call, n_op>>

\* one call of scan_batch of the system tables
VARIABLES
    b_batch,       \* the RecordBatch: its columns
    b_schema,      \* the schema: its fields
    b_projection,  \* Option of the projection, a sequence of column indices from 0
    b_result       \* Option of what scan_batch returned

scanVars == <<b_batch, b_schema, b_projection, b_result>>

\* one run of send_metrics_to_tracing over a physical plan
VARIABLES
    x_parent,       \* the plan: the parent of every node, 0 for the root
    x_metrics,      \* per node: Option of its MetricsSet
    x_caller,       \* the span of the caller, parent of the root's span
    x_default_end,  \* default_end_time of the outermost call
    x_stack,        \* the calls of send_metrics_to_tracing in progress
    x_exported,     \* the spans exported so far, in order
    x_pc            \* "new" | "run" | "done"

traceVars == <<x_parent, x_metrics, x_caller, x_default_end, x_stack, x_exported, x_pc>>

vars == <<engineVars, gateVars, storeVars, cfgVars, cacheVars, mockVars,
          pairVars, foldVars, nestedVars, scanVars, traceVars>>

\* the variables each specification leaves alone
outsideEngine == <<gateVars, storeVars, cfgVars, cacheVars, mockVars,
                   pairVars, foldVars, nestedVars, scanVars, traceVars>>
outsideGate == <<engineVars, storeVars, cfgVars, cacheVars, mockVars,
                 pairVars, foldVars, nestedVars, scanVars, traceVars>>
outsideStore == <<engineVars, gateVars, cfgVars, cacheVars, mockVars,
                  pairVars, foldVars, nestedVars, scanVars, traceVars>>
outsideCfg == <<engineVars, storeVars, cacheVars, mockVars, pairVars,
                foldVars, nestedVars, scanVars, traceVars>>
outsideCache == <<engineVars, gateVars, storeVars, cfgVars, mockVars,
                  pairVars, foldVars, nestedVars, scanVars, traceVars>>
outsideMock == <<engineVars, gateVars, storeVars, cfgVars, cacheVars,
                 pairVars, foldVars, nestedVars, scanVars, traceVars>>
outsidePair == <<engineVars, gateVars, storeVars, cfgVars, cacheVars,
                 mockVars, foldVars, nestedVars, scanVars, traceVars>>
outsideFold == <<engineVars, gateVars, storeVars, cfgVars, cacheVars,
                 mockVars, pairVars, nestedVars, scanVars, traceVars>>
outsideNested == <<engineVars, gateVars, storeVars, cfgVars, cacheVars,
                   mockVars, pairVars, foldVars, scanVars, traceVars>>
outsideScan == <<engineVars, gateVars, storeVars, cfgVars, cacheVars,
                 mockVars, pairVars, foldVars, nestedVars, traceVars>>
outsideTrace == <<engineVars, gateVars, storeVars, cfgVars, cacheVars,
                  mockVars, pairVars, foldVars, nestedVars, scanVars>>

retryVars == <<attempts, calls, outcomes, sleeps>>
listVars == <<state, ended, curTok, reqs, pages, yielded, pulls, lastPull, acc>>

\* number of pages the backend has served so far
served == Len(pages)

----------------------------------------------------------------------------
(* Bounds *)

\* number of times a listing stream is polled
MaxPulls == 5

\* number of concurrent calls on one S3 client
NumTasks == 2

\* largest connection limit an S3 client is built with
MaxConnections == 2

Tasks == 1..NumTasks

----------------------------------------------------------------------------
(* The values the variables of one specification keep in the others *)

GateIdle ==
    /\ max_connections = 0
    /\ connection_semaphore = 0
    /\ waiters = <<>>
    /\ t_op = <<>>
    /\ t_pc = <<>>
    /\ t_attempts = <<>>
    /\ t_state = <<>>
    /\ permit = <<>>
    /\ acquired = <<>>
    /\ cancelled = <<>>

EngineIdle ==
    /\ adapter = "s3"
    /\ op = "none"
    /\ pc = "start"
    /\ state = [tag |-> "Start"]
    /\ ended = FALSE
    /\ curTok = <<>>
    /\ attempts = 0
    /\ calls = 0
    /\ outcomes = <<>>
    /\ sleeps = <<>>
    /\ reqs = <<>>
    /\ outstanding = 0
    /\ pages = <<>>
    /\ yielded = <<>>
    /\ pulls = 0
    /\ lastPull = "none"
    /\ acc = [objects |-> <<>>, common_prefixes |-> <<>>, next_token |-> <<>>]
    /\ result = <<>>

StoreIdle ==
    /\ s_adapter = "none"
    /\ bucket = <<>>
    /\ history = <<>>
    /\ s_call = <<>>
    /\ s_pc = "idle"
    /\ s_attempts = 0
    /\ s_requests = 0
    /\ s_last = <<>>

CacheIdle ==
    /\ c_limit = 0
    /\ c_sizes = <<>>
    /\ c_entries = <<>>
    /\ c_pc = <<>>
    /\ c_key = <<>>
    /\ c_event = <<>>

MockIdle ==
    /\ writes = <<>>
    /\ poisoned = FALSE
    /\ m_pc = <<>>
    /\ m_arg = <<>>
    /\ m_pushed = <<>>
    /\ m_result = <<>>
    /\ m_started = 0
    /\ poison_returned = FALSE
    /\ writes_at_poison = <<>>

PairIdle ==
    /\ p_resp = <<>>
    /\ p_state = <<>>
    /\ p_req = <<>>
    /\ p_pc = ""

FoldIdle ==
    /\ f_items = <<>>
    /\ f_acc = <<>>
    /\ f_result = <<>>

NestedIdle ==
    /\ n_max = 0
    /\ n_semaphore = 0
    /\ n_waiters = <<>>
    /\ n_stream = <<>>
    /\ n_call = <<>>
    /\ n_op = <<>>

ScanIdle ==
    /\ b_batch = <<>>
    /\ b_schema = <<>>
    /\ b_projection = <<>>
    /\ b_result = <<>>

TraceIdle ==
    /\ x_parent = <<>>
    /\ x_metrics = <<>>
    /\ x_caller = <<>>
    /\ x_default_end = 0
    /\ x_stack = <<>>
    /\ x_exported = <<>>
    /\ x_pc = ""

CfgIdle ==
    /\ access_key_id = <<>>
    /\ secret_access_key = <<>>
    /\ session_token = <<>>
    /\ region = ""
    /\ endpoint = <<>>
    /\ new_s3_result = <<>>

----------------------------------------------------------------------------
(* Option<T>: None is the empty sequence, Some(x) the one-element sequence *)

None == <<>>
Some(x) == <<x>>
IsSome(o) == Len(o) = 1
Unwrap(o) == o[1]

RECURSIVE SumSeq(_)
SumSeq(s) == IF s = <<>> THEN 0 ELSE Head(s) + SumSeq(Tail(s))

RECURSIVE Pow2(_)
Pow2(n) == IF n = 0 THEN 1 ELSE 2 * Pow2(n - 1)

Min(a, b) == IF a < b THEN a ELSE b

----------------------------------------------------------------------------
(* The environment: errors and responses of the backends *)

\* continuation tokens / markers a backend may hand out (a String)
Tokens == {"", "t1"}
TokenOpt == {None} \cup {Some(t) : t \in Tokens}

\* rusoto_core::RusotoError: Unknown(response) carries an HTTP status
Unknown(status) == [variant |-> "Unknown", status |-> status]
OtherError(v) == [variant |-> v, status |-> 0]
RusotoErrors == {Unknown(500), Unknown(503), Unknown(404),
                 OtherError("Service"), OtherError("HttpDispatch")}

\* the errors a list page request is answered with
ListErrors == {Unknown(503), Unknown(404)}

\* http::StatusCode::is_server_error
is_server_error(status) == 500 <= status /\ status < 600

\* one page of a listing: its contents (identified by the page's serial
\* number) and the continuation token / marker of the response
Page(n, tok) == [batch |-> n, next |-> tok]

Ok(v) == [ok |-> TRUE, val |-> v]
Err(e) == [ok |-> FALSE, err |-> e]

\* what one awaited S3 request may resolve to
S3Responses ==
    IF op \in {"put", "delete"}
    THEN {Ok("unit")} \cup {Err(e) : e \in RusotoErrors}
    ELSE {Ok(Page(served + 1, t)) : t \in TokenOpt} \cup {Err(e) : e \in ListErrors}

\* the next_marker / next_page_token of an Azure or GCS response: the SDKs
\* hand out a marker only when there is one, never an empty string
Markers == {"t1", "t2"}
MarkerOpt == {None} \cup {Some(t) : t \in Markers}

\* what one Azure / GCS list request may resolve to
PageResponses ==
    {Ok(Page(served + 1, t)) : t \in MarkerOpt} \cup {Err(OtherError(adapter))}

----------------------------------------------------------------------------
(* ListState *)

Start == [tag |-> "Start"]
HasMore(t) == [tag |-> "HasMore", token |-> t]
Done == [tag |-> "Done"]

\* a page request that never carries the token of the state
continuation_token_dropped(st) == None

\* aws.rs 516-524 / azure.rs 162-170: the token the next request carries
continuation_token(st) == IF st.tag = "HasMore" THEN Some(st.token) ELSE None

\* a next state that takes an empty token for "no more pages"
next_state_nonempty(resp) ==
    IF IsSome(resp.next) /\ Unwrap(resp.next) # ""
    THEN HasMore(Unwrap(resp.next)) ELSE Done

\* a next state that goes on only when the response is flagged truncated
next_state_if_truncated(resp) ==
    IF IsSome(resp.next) /\ resp.is_truncated = Some(TRUE)
    THEN HasMore(Unwrap(resp.next)) ELSE Done

\* aws.rs 552-557 / azure.rs 177-181
next_state(resp) ==
    IF IsSome(resp.next) THEN HasMore(Unwrap(resp.next)) ELSE Done

----------------------------------------------------------------------------
(* s3_request *)

MAX_NUM_RETRIES == 3

\* a retry predicate that looks at the variant only
should_retry_any_unknown(error) == error.variant = "Unknown"

\* aws.rs 604-608
should_retry(error) ==
    error.variant = "Unknown" /\ is_server_error(error.status)

\* a backoff whose exponent starts at zero
wait_time_from_zero(n) == Pow2(n - 1) * 50

\* aws.rs 620: Duration::from_millis(2u64.pow(attempts) * 50); attempts is at
\* most MAX_NUM_RETRIES here, far from the width of u64
wait_time(n) == Pow2(n) * 50

\* a retry ceiling compared with >= instead of >
give_up_off_by_one(n, error) == n >= MAX_NUM_RETRIES \/ ~should_retry(error)

\* a retry ceiling that allows one retry more
give_up_one_late(n, error) == n > MAX_NUM_RETRIES + 1 \/ ~should_retry(error)

\* aws.rs 610-622: what s3_request does with a failed attempt, `n` being
\* `attempts` after the increment
give_up(n, error) == n > MAX_NUM_RETRIES \/ ~should_retry(error)

\* the error a caller wraps around the error s3_request returned
Wrapped(kind, source) == [kind |-> kind, source |-> source]

ErrorKind ==
    CASE adapter = "azure" -> "List"
      [] op = "put" -> "UnableToPutData"
      [] op = "delete" -> "UnableToDeleteData"
      [] OTHER -> "UnableToListData"

EmptyListResult == [objects |-> <<>>, common_prefixes |-> <<>>, next_token |-> None]

\* aws.rs 333-376: the try_fold step of list_with_delimiter
fold(a, page) ==
    [objects |-> a.objects \o <<page.batch>>,
     common_prefixes |-> a.common_prefixes \o <<page.batch>>,
     next_token |-> a.next_token]

----------------------------------------------------------------------------
Init ==
    /\ adapter \in {"s3", "azure", "gcs"}
    /\ op \in {"put", "delete", "list", "lwd"}
    /\ adapter = "azure" => op \in {"list", "lwd"}
    /\ adapter = "gcs" => op = "lwd"
    /\ pc = "start"
    /\ state = Start
    /\ ended = FALSE
    /\ curTok = None
    /\ attempts = 0
    /\ calls = 0
    /\ outcomes = <<>>
    /\ sleeps = <<>>
    /\ reqs = <<>>
    /\ outstanding = 0
    /\ pages = <<>>
    /\ yielded = <<>>
    /\ pulls = 0
    /\ lastPull = "none"
    /\ acc = EmptyListResult
    /\ result = None
    /\ GateIdle /\ StoreIdle /\ CfgIdle /\ CacheIdle /\ MockIdle
    /\ TraceIdle
    /\ ScanIdle
    /\ NestedIdle
    /\ FoldIdle
    /\ PairIdle

\* entry to s3_request: aws.rs 592
s3_request_enter ==
    /\ attempts' = 0
    /\ calls' = 0
    /\ outcomes' = <<>>
    /\ sleeps' = <<>>
    /\ pc' = "factory"

\* AmazonS3::put up to the call of s3_request
put ==
    /\ pc = "start" /\ adapter = "s3" /\ op = "put"
    /\ s3_request_enter
    /\ UNCHANGED <<outsideEngine, adapter, op, outstanding, result>>
    /\ UNCHANGED listVars

\* AmazonS3::delete up to the call of s3_request
delete ==
    /\ pc = "start" /\ adapter = "s3" /\ op = "delete"
    /\ s3_request_enter
    /\ UNCHANGED <<outsideEngine, adapter, op, outstanding, result>>
    /\ UNCHANGED listVars

\* AmazonS3::list_objects_v2 (called by list and list_with_delimiter) and
\* MicrosoftAzure::list: build the stream, seeded with ListState::Start
list_stream ==
    /\ pc = "start" /\ adapter \in {"s3", "azure"}
    /\ op = "list" \/ (op = "lwd" /\ adapter = "s3")
    /\ state' = Start
    /\ pc' = "idle"
    /\ UNCHANGED <<outsideEngine, adapter, op, ended, curTok, reqs, pages, yielded, pulls,
                   lastPull, acc, outstanding, result>>
    /\ UNCHANGED retryVars

\* the stream is polled again after it returned end-of-stream: the closure
\* is not called any more
poll_ended ==
    /\ pc = "idle" /\ ended /\ pulls < MaxPulls
    /\ pulls' = pulls + 1
    /\ lastPull' = "end"
    /\ UNCHANGED <<outsideEngine, adapter, op, pc, state, ended, curTok, reqs, pages,
                   yielded, acc, outstanding, result>>
    /\ UNCHANGED retryVars

\* the closure of stream::unfold is called in state Done: it returns None.
\* For list_with_delimiter on S3 this ends the try_fold with the accumulator.
poll_done ==
    /\ pc = "idle" /\ ~ended /\ pulls < MaxPulls
    /\ state.tag = "Done"
    /\ pulls' = pulls + 1
    /\ lastPull' = "end"
    /\ ended' = TRUE
    /\ IF op = "lwd"
       THEN result' = Some(Ok(acc)) /\ pc' = "done"
       ELSE UNCHANGED <<result, pc>>
    /\ UNCHANGED <<outsideEngine, adapter, op, state, curTok, reqs, pages, yielded, acc,
                   outstanding>>
    /\ UNCHANGED retryVars

\* the closure is called in state Start or HasMore on S3: it enters
\* s3_request with the continuation token of the state
poll_s3 ==
    /\ pc = "idle" /\ ~ended /\ pulls < MaxPulls
    /\ adapter = "s3"
    /\ state.tag # "Done"
    /\ pulls' = pulls + 1
    /\ lastPull' = "none"
    /\ curTok' = continuation_token(state)
    /\ s3_request_enter
    /\ UNCHANGED <<outsideEngine, adapter, op, state, ended, reqs, pages, yielded, acc,
                   outstanding, result>>

\* s3_request, aws.rs 595: a fresh request from the factory is issued
s3_request_call ==
    /\ pc = "factory"
    /\ calls' = calls + 1
    /\ outstanding' = outstanding + 1
    /\ reqs' = IF op \in {"list", "lwd"} THEN Append(reqs, curTok) ELSE reqs
    /\ pc' = "await"
    /\ UNCHANGED <<outsideEngine, adapter, op, state, ended, curTok, attempts, outcomes,
                   sleeps, pages, yielded, pulls, lastPull, acc, result>>

\* an unfold that ends the stream after the first page
unfold_state_one_page(st, r) == IF r.ok THEN Done ELSE st

\* aws.rs 543-559 / azure.rs 172-190: the state the closure of the unfold
\* returns next to its item, `r` being the outcome of the page request
unfold_state(st, r) == IF r.ok THEN next_state(r.val) ELSE st

\* the closure of the unfold returns Some((item, next state)); on S3 the
\* consumer of list_with_delimiter is the try_fold of aws.rs 327-378
unfold_yield(r) ==
    /\ lastPull' = "item"
    /\ yielded' = Append(yielded,
            IF r.ok THEN r ELSE Err(Wrapped(ErrorKind, r.err)))
    /\ state' = unfold_state(state, r)
    /\ UNCHANGED ended
    /\ IF op = "list"
       THEN pc' = "idle" /\ UNCHANGED <<acc, result>>
       ELSE IF r.ok
            THEN /\ acc' = fold(acc, r.val)
                 /\ pc' = "idle"
                 /\ UNCHANGED result
            ELSE /\ result' = Some(Err(Wrapped(ErrorKind, r.err)))
                 /\ pc' = "done"
                 /\ UNCHANGED acc

\* what the caller of s3_request does with its return value `r`
s3_request_return(r) ==
    IF op \in {"put", "delete"}
    THEN \* aws.rs 211-216 / 288-293
         /\ result' = Some(IF r.ok THEN Ok("unit")
                                   ELSE Err(Wrapped(ErrorKind, r.err)))
         /\ pc' = "done"
         /\ UNCHANGED <<state, yielded, lastPull, acc, ended>>
    ELSE unfold_yield(r)

\* s3_request, aws.rs 597-623: the awaited request resolves
s3_request_result ==
    /\ pc = "await" /\ adapter = "s3"
    /\ \E r \in S3Responses :
        /\ outstanding' = outstanding - 1
        /\ outcomes' = Append(outcomes, r)
        /\ pages' = IF r.ok /\ op \in {"list", "lwd"} THEN Append(pages, r.val) ELSE pages
        /\ IF r.ok
           THEN /\ s3_request_return(r)
                /\ UNCHANGED <<attempts, sleeps>>
           ELSE /\ attempts' = attempts + 1
                /\ IF give_up(attempts + 1, r.err)
                   THEN /\ s3_request_return(r)
                        /\ UNCHANGED sleeps
                   ELSE /\ sleeps' = Append(sleeps, wait_time(attempts + 1))
                        /\ pc' = "sleep"
                        /\ UNCHANGED <<state, yielded, lastPull, acc, ended,
                                       result>>
    /\ UNCHANGED <<outsideEngine, adapter, op, curTok, calls, reqs, pulls>>

\* a loop that awaits the request of the last attempt once more
s3_request_wake_reuse ==
    /\ pc = "sleep"
    /\ pc' = "await"
    /\ outstanding' = outstanding + 1
    /\ UNCHANGED <<outsideEngine, adapter, op, result>>
    /\ UNCHANGED retryVars
    /\ UNCHANGED listVars

\* s3_request, aws.rs 621: the backoff sleep is over, the loop starts again
s3_request_wake ==
    /\ pc = "sleep"
    /\ pc' = "factory"
    /\ UNCHANGED <<outsideEngine, adapter, op, outstanding, result>>
    /\ UNCHANGED retryVars
    /\ UNCHANGED listVars

\* MicrosoftAzure::list, azure.rs 155-172: the closure is called in state
\* Start or HasMore and executes one list_blobs request
poll_azure ==
    /\ pc = "idle" /\ ~ended /\ pulls < MaxPulls
    /\ adapter = "azure"
    /\ state.tag # "Done"
    /\ pulls' = pulls + 1
    /\ lastPull' = "none"
    /\ curTok' = continuation_token(state)
    /\ reqs' = Append(reqs, continuation_token(state))
    /\ outstanding' = outstanding + 1
    /\ pc' = "await"
    /\ UNCHANGED <<outsideEngine, adapter, op, state, ended, pages, yielded, acc, result>>
    /\ UNCHANGED retryVars

\* MicrosoftAzure::list, azure.rs 172-190: the request resolves
azure_list_result ==
    /\ pc = "await" /\ adapter = "azure" /\ op = "list"
    /\ \E r \in PageResponses :
        /\ outstanding' = outstanding - 1
        /\ pages' = IF r.ok THEN Append(pages, r.val) ELSE pages
        /\ unfold_yield(r)
    /\ UNCHANGED <<outsideEngine, adapter, op, curTok, reqs, pulls>>
    /\ UNCHANGED retryVars

\* the ListResult made of one page: azure.rs 211-249 / gcp.rs 250-273
page_result(page) ==
    [objects |-> <<page.batch>>,
     common_prefixes |-> <<page.batch>>,
     next_token |-> page.next]

\* MicrosoftAzure::list_with_delimiter, azure.rs 202-209: one list_blobs
\* request without a marker
azure_list_with_delimiter ==
    /\ pc = "start" /\ adapter = "azure" /\ op = "lwd"
    /\ reqs' = Append(reqs, None)
    /\ outstanding' = outstanding + 1
    /\ pc' = "await"
    /\ UNCHANGED <<outsideEngine, adapter, op, state, ended, curTok, pages, yielded, pulls,
                   lastPull, acc, result>>
    /\ UNCHANGED retryVars

\* MicrosoftAzure::list_with_delimiter, azure.rs 209-249
azure_lwd_result ==
    /\ pc = "await" /\ adapter = "azure" /\ op = "lwd"
    /\ \E r \in PageResponses :
        /\ outstanding' = outstanding - 1
        /\ pages' = IF r.ok THEN Append(pages, r.val) ELSE pages
        /\ result' = Some(IF r.ok THEN Ok(page_result(r.val))
                                  ELSE Err(Wrapped("List", r.err)))
    /\ pc' = "done"
    /\ UNCHANGED <<outsideEngine, adapter, op, state, ended, curTok, reqs, yielded, pulls,
                   lastPull, acc>>
    /\ UNCHANGED retryVars

\* GoogleCloudStorage::list_with_delimiter, gcp.rs 222-239: the SDK's list
\* either fails or hands out a stream, whose first item is then awaited
gcs_list_with_delimiter ==
    /\ pc = "start" /\ adapter = "gcs" /\ op = "lwd"
    /\ \/ /\ result' = Some(Err(Wrapped("UnableToListData", OtherError("gcs"))))
          /\ pc' = "done"
          /\ UNCHANGED <<reqs, outstanding>>
       \/ /\ reqs' = Append(reqs, None)
          /\ outstanding' = outstanding + 1
          /\ pc' = "await"
          /\ UNCHANGED result
    /\ UNCHANGED <<outsideEngine, adapter, op, state, ended, curTok, pages, yielded, pulls,
                   lastPull, acc>>
    /\ UNCHANGED retryVars

\* GoogleCloudStorage::list_with_delimiter, gcp.rs 239-277: the first item of
\* the SDK's stream: nothing, an error, or one page
gcs_lwd_result ==
    /\ pc = "await" /\ adapter = "gcs" /\ op = "lwd"
    /\ outstanding' = outstanding - 1
    /\ \/ /\ result' = Some(Ok(EmptyListResult))
          /\ UNCHANGED pages
       \/ \E r \in PageResponses :
            /\ pages' = IF r.ok THEN Append(pages, r.val) ELSE pages
            /\ result' = Some(IF r.ok
                    THEN Ok(page_result(r.val))
                    ELSE Err(Wrapped("UnableToStreamListData", r.err)))
    /\ pc' = "done"
    /\ UNCHANGED <<outsideEngine, adapter, op, state, ended, curTok, reqs, yielded, pulls,
                   lastPull, acc>>
    /\ UNCHANGED retryVars

Next ==
    \/ put
    \/ delete
    \/ list_stream
    \/ poll_ended
    \/ poll_done
    \/ poll_s3
    \/ s3_request_call
    \/ s3_request_result
    \/ s3_request_wake
    \/ poll_azure
    \/ azure_list_result
    \/ azure_list_with_delimiter
    \/ azure_lwd_result
    \/ gcs_list_with_delimiter
    \/ gcs_lwd_result

Spec == Init /\ [][Next]_vars

TypeOK ==
    /\ pc \in {"start", "idle", "factory", "await", "sleep", "done"}
    /\ attempts \in 0..(MAX_NUM_RETRIES + 1)
    /\ outstanding \in 0..1

----------------------------------------------------------------------------
(* The retry executor: claims C1 - C5 *)

\* a 5xx server response, as the claims word it
Transient5xx(e) == e.variant = "Unknown" /\ e.status \in 500..599
TransientFailure(r) == ~r.ok /\ Transient5xx(r.err)

\* the number of leading transient failures of this s3_request invocation
KFail ==
    Cardinality({i \in 1..Len(outcomes) :
                    \A j \in 1..i : TransientFailure(outcomes[j])})

\* the request factory has shown the behaviour "fails transiently k times,
\* then succeeds" as far as it has been observed
FailsThenSucceeds ==
    \A i \in 1..Len(outcomes) :
        \/ TransientFailure(outcomes[i])
        \/ i = Len(outcomes) /\ outcomes[i].ok

\* an invocation of s3_request has returned and none has been entered since
Returned == adapter = "s3" /\ calls > 0 /\ pc \in {"idle", "done"}

\* what s3_request returned, as its caller passed it on
ReturnedValue ==
    IF op \in {"put", "delete"} THEN Unwrap(result) ELSE yielded[Len(yielded)]

\* C1: for a factory that fails transiently k times and then succeeds,
\* s3_request returns success iff k <= 3; for k >= 4 it returns the error of
\* the 4th attempt.
C1_SuccessIffAtMostThreeFailures ==
    (Returned /\ FailsThenSucceeds) =>
        /\ ReturnedValue.ok <=> KFail <= 3
        /\ KFail >= 4 =>
            /\ ~ReturnedValue.ok
            /\ ReturnedValue.err.source = outcomes[4].err

C1_Witness ==
    /\ Returned /\ FailsThenSucceeds /\ op = "put"
    /\ KFail = 4
    /\ outcomes[3].err # outcomes[4].err
    /\ ~ReturnedValue.ok
    /\ ReturnedValue.err.source = outcomes[4].err

\* C2 as stated: the executor issues exactly min(k,4) attempts.
C2_Original ==
    (Returned /\ FailsThenSucceeds) => calls = Min(KFail, 4)

\* C2 amended: for a factory that fails transiently k times and then
\* succeeds, the executor issues exactly min(k+1,4) attempts: the k failed
\* ones and the successful one, capped at 4.
C2_AttemptsMinKPlusOne ==
    (Returned /\ FailsThenSucceeds) =>
        /\ calls = Min(KFail + 1, 4)
        /\ Len(outcomes) = calls

C2_Witness ==
    /\ Returned /\ FailsThenSucceeds /\ op = "delete"
    /\ KFail = 3 /\ calls = 4 /\ ReturnedValue.ok

\* the sum of 50 * 2^i for i in 1..k
RECURSIVE SumBackoff(_)
SumBackoff(k) == IF k = 0 THEN 0 ELSE 50 * 2^k + SumBackoff(k - 1)

\* C3 as stated: the sleep after the i-th failed attempt is 50 * 2^i ms and
\* the cumulative sleep for k failures is the sum for i in 1..k.
C3_Original ==
    /\ \A i \in 1..Len(sleeps) : sleeps[i] = 50 * 2^i
    /\ (Returned /\ FailsThenSucceeds) => SumSeq(sleeps) = SumBackoff(KFail)

\* C3 amended: the sleep after the i-th failed attempt, when there is one, is
\* 50 * 2^i ms; no sleep follows the 4th failure, so the cumulative sleep for
\* k failures is the sum of 50 * 2^i for i in 1..min(k,3).
C3_BackoffSum ==
    /\ \A i \in 1..Len(sleeps) : sleeps[i] = 50 * 2^i
    /\ pc = "sleep" => Len(sleeps) = attempts
    /\ (Returned /\ FailsThenSucceeds) =>
            /\ Len(sleeps) = Min(KFail, 3)
            /\ SumSeq(sleeps) = SumBackoff(Min(KFail, 3))

C3_Witness ==
    /\ Returned /\ FailsThenSucceeds
    /\ KFail = 3 /\ ReturnedValue.ok
    /\ sleeps = <<100, 200, 400>>

\* C4: an attempt that fails with a non-transient error is the last one: the
\* error is returned at once, with no sleep and no further attempt, whether
\* it is the first attempt or follows transient failures.
C4_NonTransientNeverRetried ==
    adapter = "s3" =>
        \A i \in 1..Len(outcomes) :
            (~outcomes[i].ok /\ ~Transient5xx(outcomes[i].err)) =>
                /\ i = Len(outcomes)
                /\ calls = i
                /\ Len(sleeps) = i - 1
                /\ pc \in {"idle", "done"}
                /\ ~ReturnedValue.ok
                /\ ReturnedValue.err.source = outcomes[i].err

C4_Witness ==
    /\ adapter = "s3" /\ op = "put" /\ pc = "done"
    /\ Len(outcomes) = 2
    /\ TransientFailure(outcomes[1])
    /\ outcomes[2] = Err(Unknown(404))
    /\ sleeps = <<100>>

\* C5 as stated: no result of put, delete or list on S3 has a transient 5xx
\* error as its cause.
C5_Original ==
    adapter = "s3" =>
        /\ \A i \in 1..Len(result) :
              ~result[i].ok => ~Transient5xx(result[i].err.source)
        /\ \A i \in 1..Len(yielded) :
              ~yielded[i].ok => ~Transient5xx(yielded[i].err.source)

\* C5 amended: a transient 5xx error reaches the caller of put, delete or
\* list on S3 only as the error of the 4th attempt, after all four attempts
\* of the request failed with a 5xx error; a request with fewer failures
\* never surfaces one.
C5_TransientOnlyAfterFourAttempts ==
    (Returned /\ ~ReturnedValue.ok /\ Transient5xx(ReturnedValue.err.source)) =>
        /\ calls = 4
        /\ Len(outcomes) = 4
        /\ \A i \in 1..4 : TransientFailure(outcomes[i])
        /\ ReturnedValue.err.source = outcomes[4].err

C5_Witness ==
    /\ Returned /\ op = "list"
    /\ ~ReturnedValue.ok
    /\ ReturnedValue.err = Wrapped("UnableToListData", Unknown(503))
    /\ calls = 4

----------------------------------------------------------------------------
(* The listing engine: claims C6 - C10 *)

\* the operation runs on a stream built by stream::unfold over ListState
StreamOp ==
    /\ adapter \in {"s3", "azure"}
    /\ op = "list" \/ (op = "lwd" /\ adapter = "s3")

\* the list operation of the S3 or the Azure adapter
ListOp == adapter \in {"s3", "azure"} /\ op = "list"

\* every response received so far was a page (no request has failed)
NoFailure == served = Len(reqs) - outstanding

\* the indices of the successful items of the stream
OkItems == {i \in 1..Len(yielded) : yielded[i].ok}

\* the continuation token of the page served last, None before the first
LastPageToken == IF served = 0 THEN None ELSE pages[served].next

C7_Expected(tok, nonEmptyOnly) ==
    IF IsSome(tok) /\ (nonEmptyOnly => Unwrap(tok) # "")
    THEN HasMore(Unwrap(tok)) ELSE Done

\* the transition rule of C7, `nonEmptyOnly` telling whether an empty token
\* counts as "no token"
C7_Rule(nonEmptyOnly) ==
    StreamOp =>
        \* Start is the state until the first page has arrived
        /\ served = 0 <=> state = Start
        \* a request in flight carries the token of the state, Done has none
        /\ pc \in {"factory", "await", "sleep"} =>
                state.tag \in {"Start", "HasMore"}
        /\ pc = "await" =>
                /\ state = Start => reqs[Len(reqs)] = None
                /\ state.tag = "HasMore" => reqs[Len(reqs)] = Some(state.token)
        /\ state.tag = "Done" => outstanding = 0
        \* the state after a page is decided by the page's token
        /\ served > 0 => state = C7_Expected(pages[served].next, nonEmptyOnly)

\* C7 as stated: only a non-empty continuation token leads to HasMore, every
\* other response to Done.
C7_Original == C7_Rule(TRUE)

\* C7 amended: Start issues a request with no token, HasMore(t) one carrying
\* exactly t, Done none; a successful response carrying a continuation token
\* t' (empty or not) moves the state to HasMore(t'), one carrying no token
\* moves it to Done.
C7_ListStateTransitions == C7_Rule(FALSE)

C7_Witness ==
    /\ StreamOp /\ adapter = "s3"
    /\ served = 1 /\ pages[1].next = Some("")
    /\ pc = "await"
    /\ state = HasMore("")
    /\ reqs = <<None, Some("")>>

\* C8: after a failed page request the list stream yields one error item and
\* is exhausted: no later pull yields an item or issues a page request.
C8_Original ==
    ListOp =>
        \A i \in 1..Len(yielded) :
            ~yielded[i].ok =>
                /\ i = Len(yielded)
                /\ pc = "idle"
                /\ outstanding = 0
                /\ lastPull \in {"item", "end"}

\* C9: page requests of one listing are issued one after another, each after
\* the previous page has been received and yielded, carrying that page's
\* continuation token; batches are yielded in the order the pages arrive.
C9_PagesInOrder ==
    StreamOp =>
        /\ outstanding <= 1
        /\ outstanding = 1 <=> pc = "await"
        /\ Cardinality(OkItems) = served
        /\ \A i \in OkItems :
              yielded[i] = Ok(pages[Cardinality({j \in OkItems : j <= i})])
        /\ \A i \in 1..served : pages[i].batch = i
        /\ pc = "await" =>
              /\ reqs[Len(reqs)] = LastPageToken
              /\ served > 0 => IsSome(LastPageToken)

C9_Witness ==
    /\ StreamOp /\ adapter = "s3" /\ op = "list"
    /\ pc = "await"
    /\ served = 2
    /\ pages[1].next = Some("")
    /\ pages[2].next = Some("t1")
    /\ reqs = <<None, Some(""), Some("t1")>>
    /\ Len(yielded) = 2

\* C10: list_with_delimiter fetches one page per call on every adapter and
\* returns that page's objects, common prefixes and continuation token.
C10_Original ==
    op = "lwd" =>
        /\ served <= 1
        /\ (pc = "done" /\ Unwrap(result).ok) =>
              Unwrap(result).val =
                  IF served = 0 THEN EmptyListResult
                  ELSE [objects |-> <<pages[1].batch>>,
                        common_prefixes |-> <<pages[1].batch>>,
                        next_token |-> pages[1].next]

----------------------------------------------------------------------------
(* The connection semaphore of the S3 adapter (SpecGate)                   *)
(*                                                                         *)
(* Positions of a call: "new" not yet made; "acquire" queued inside        *)
(* client(); "client" the SemaphoreClient has been handed out; "await" a   *)
(* network call is in flight; "sleep" the backoff of s3_request; "stream"  *)
(* a listing stream exists and is not being polled; "body" get has         *)
(* returned and the body stream is being read; "done"; "dropped".          *)

GateOps == {"put", "get", "delete", "list", "lwd"}

\* a semaphore created with one permit too many
new_semaphore_plus_one(n) == n + 1

\* aws.rs 437: Semaphore::new(max_connections.get())
new_semaphore(n) == n

\* a client that is not dropped when the call is cancelled
client_dropped_no_cancel(o, newpc) ==
    newpc = "done" \/ (o = "get" /\ newpc = "body")

\* a client that is given back during the backoff sleep
client_dropped_sleep(o, newpc) ==
    newpc \in {"done", "dropped", "sleep"} \/ (o = "get" /\ newpc = "body")

\* a client that is given back whenever the listing stream has yielded
client_dropped_between_pages(o, newpc) ==
    newpc \in {"done", "dropped", "stream"} \/ (o = "get" /\ newpc = "body")

\* a get whose client lives as long as the body stream it returned
client_dropped_with_body(o, newpc) == newpc \in {"done", "dropped"}

\* does the SemaphoreClient of a call of `o` go out of scope when the call
\* moves to `newpc`: put, delete and the listing stream own it until they
\* are finished or dropped (aws.rs 203-214, 280-291, 509-513); in get it is
\* a temporary of the statement that awaits get_object (aws.rs 233-262)
client_dropped(o, newpc) ==
    newpc \in {"done", "dropped"} \/ (o = "get" /\ newpc = "body")

GateInit ==
    /\ max_connections \in 1..MaxConnections
    /\ connection_semaphore = new_semaphore(max_connections)
    /\ waiters = <<>>
    /\ t_op = [t \in Tasks |-> "none"]
    /\ t_pc = [t \in Tasks |-> "new"]
    /\ t_attempts = [t \in Tasks |-> 0]
    /\ t_state = [t \in Tasks |-> "Start"]
    /\ permit = [t \in Tasks |-> FALSE]
    /\ acquired = [t \in Tasks |-> 0]
    /\ cancelled = [t \in Tasks |-> "no"]
    /\ EngineIdle /\ StoreIdle /\ CfgIdle /\ CacheIdle /\ MockIdle
    /\ TraceIdle
    /\ ScanIdle
    /\ NestedIdle
    /\ FoldIdle
    /\ PairIdle

\* a semaphore that wakes nobody when a permit comes back
hand_over_never(ws) == FALSE

\* tokio's Semaphore gives a returned permit to the oldest pending
\* acquire_owned (aws.rs 478-481) instead of making it available
hand_over(ws) == ws # <<>>

\* task `t` moves to `newpc`. When this drops its SemaphoreClient the permit
\* goes back to the semaphore, which hands it to the oldest queued
\* acquire_owned, if there is one (tokio::sync::Semaphore is fair)
gate_move(t, newpc) ==
    IF permit[t] /\ client_dropped(t_op[t], newpc)
    THEN IF hand_over(waiters)
         THEN LET w == Head(waiters) IN
              /\ waiters' = Tail(waiters)
              /\ permit' = [permit EXCEPT ![t] = FALSE, ![w] = TRUE]
              /\ acquired' = [acquired EXCEPT ![w] = @ + 1]
              /\ t_pc' = [t_pc EXCEPT ![t] = newpc, ![w] = "client"]
              /\ UNCHANGED connection_semaphore
         ELSE /\ connection_semaphore' = connection_semaphore + 1
              /\ permit' = [permit EXCEPT ![t] = FALSE]
              /\ t_pc' = [t_pc EXCEPT ![t] = newpc]
              /\ UNCHANGED <<waiters, acquired>>
    ELSE /\ t_pc' = [t_pc EXCEPT ![t] = newpc]
         /\ UNCHANGED <<connection_semaphore, waiters, permit, acquired>>

\* AmazonS3::client, aws.rs 476-485, called first thing by every operation:
\* acquire_owned takes a permit or queues the caller
client(t) ==
    /\ t_pc[t] = "new"
    /\ \E o \in GateOps : t_op' = [t_op EXCEPT ![t] = o]
    /\ IF connection_semaphore > 0
       THEN /\ connection_semaphore' = connection_semaphore - 1
            /\ permit' = [permit EXCEPT ![t] = TRUE]
            /\ acquired' = [acquired EXCEPT ![t] = @ + 1]
            /\ t_pc' = [t_pc EXCEPT ![t] = "client"]
            /\ UNCHANGED waiters
       ELSE /\ waiters' = Append(waiters, t)
            /\ t_pc' = [t_pc EXCEPT ![t] = "acquire"]
            /\ UNCHANGED <<connection_semaphore, permit, acquired>>
    /\ UNCHANGED <<max_connections, t_attempts, t_state, cancelled>>
    /\ UNCHANGED outsideGate

\* the call goes on with its SemaphoreClient: put and delete enter
\* s3_request, get awaits get_object, list_objects_v2 builds its stream
gate_issue(t) ==
    /\ t_pc[t] = "client"
    /\ t_attempts' = [t_attempts EXCEPT ![t] = 0]
    /\ t_state' = [t_state EXCEPT ![t] = "Start"]
    /\ t_pc' = [t_pc EXCEPT ![t] =
                    IF t_op[t] \in {"list", "lwd"} THEN "stream" ELSE "await"]
    /\ UNCHANGED <<max_connections, connection_semaphore, waiters, t_op,
                   permit, acquired, cancelled>>
    /\ UNCHANGED outsideGate

\* the listing stream is polled (by the caller of list, by the try_fold of
\* list_with_delimiter): aws.rs 516-526
gate_poll(t) ==
    /\ t_pc[t] = "stream" /\ t_state[t] # "Ended"
    /\ IF t_state[t] = "Done"
       THEN /\ t_state' = [t_state EXCEPT ![t] = "Ended"]
            /\ gate_move(t, IF t_op[t] = "lwd" THEN "done" ELSE "stream")
            /\ UNCHANGED t_attempts
       ELSE /\ t_attempts' = [t_attempts EXCEPT ![t] = 0]
            /\ t_pc' = [t_pc EXCEPT ![t] = "await"]
            /\ UNCHANGED <<t_state, connection_semaphore, waiters, permit,
                           acquired>>
    /\ UNCHANGED <<max_connections, t_op, cancelled>>
    /\ UNCHANGED outsideGate

\* the network call of `t` resolves: aws.rs 597-623 for the calls that go
\* through s3_request, aws.rs 237-264 for get
gate_response(t) ==
    /\ t_pc[t] = "await"
    /\ \E r \in {Ok("more"), Ok("last"), Err(Unknown(503)), Err(Unknown(404))} :
        /\ r = Ok("more") => t_op[t] \in {"list", "lwd"}
        /\ CASE t_op[t] = "get" ->
                  /\ gate_move(t, IF r.ok THEN "body" ELSE "done")
                  /\ UNCHANGED <<t_attempts, t_state>>
             [] r.ok ->
                  /\ t_state' = [t_state EXCEPT ![t] =
                        IF r.val = "more" THEN "HasMore" ELSE "Done"]
                  /\ gate_move(t, IF t_op[t] \in {"list", "lwd"}
                                  THEN "stream" ELSE "done")
                  /\ t_attempts' = [t_attempts EXCEPT ![t] = 0]
             [] OTHER ->
                  /\ UNCHANGED t_state
                  /\ IF give_up(t_attempts[t] + 1, r.err)
                     THEN /\ gate_move(t, IF t_op[t] = "list"
                                          THEN "stream" ELSE "done")
                          /\ t_attempts' = [t_attempts EXCEPT ![t] = 0]
                     ELSE /\ gate_move(t, "sleep")
                          /\ t_attempts' = [t_attempts EXCEPT ![t] = @ + 1]
    /\ UNCHANGED <<max_connections, t_op, cancelled>>
    /\ UNCHANGED outsideGate

\* aws.rs 621: the backoff sleep is over, the next attempt is issued
gate_wake(t) ==
    /\ t_pc[t] = "sleep"
    /\ t_pc' = [t_pc EXCEPT ![t] = "await"]
    /\ UNCHANGED <<max_connections, connection_semaphore, waiters, t_op,
                   t_attempts, t_state, permit, acquired, cancelled>>
    /\ UNCHANGED outsideGate

\* the caller of get has read the body stream to its end or dropped it
gate_body_end(t) ==
    /\ t_pc[t] = "body"
    /\ t_state' = [t_state EXCEPT ![t] = "Ended"]
    /\ gate_move(t, "done")
    /\ UNCHANGED <<max_connections, t_op, t_attempts, cancelled>>
    /\ UNCHANGED outsideGate

\* the caller of list drops the stream it is not polling
gate_drop_stream(t) ==
    /\ t_pc[t] = "stream" /\ t_op[t] = "list"
    /\ cancelled' = [cancelled EXCEPT ![t] = "stream"]
    /\ gate_move(t, "dropped")
    /\ UNCHANGED <<max_connections, t_op, t_attempts, t_state>>
    /\ UNCHANGED outsideGate

\* the future of the call (or the stream being polled) is dropped at one of
\* its suspension points
gate_cancel(t) ==
    /\ t_pc[t] \in {"acquire", "client", "await", "sleep"}
    /\ cancelled' = [cancelled EXCEPT ![t] = t_pc[t]]
    /\ IF t_pc[t] = "acquire"
       THEN /\ waiters' = SelectSeq(waiters, LAMBDA w : w # t)
            /\ t_pc' = [t_pc EXCEPT ![t] = "dropped"]
            /\ UNCHANGED <<connection_semaphore, permit, acquired>>
       ELSE gate_move(t, "dropped")
    /\ t_attempts' = [t_attempts EXCEPT ![t] = 0]
    /\ UNCHANGED <<max_connections, t_op, t_state>>
    /\ UNCHANGED outsideGate

GateNext ==
    \E t \in Tasks :
        \/ client(t)
        \/ gate_issue(t)
        \/ gate_poll(t)
        \/ gate_response(t)
        \/ gate_wake(t)
        \/ gate_body_end(t)
        \/ gate_drop_stream(t)
        \/ gate_cancel(t)

SpecGate == GateInit /\ [][GateNext]_vars

\* the runtime polls a call that can go on, and the backend answers
GateFairness ==
    \A t \in Tasks :
        /\ WF_vars(gate_issue(t))
        /\ WF_vars(gate_response(t))
        /\ WF_vars(gate_wake(t))

SpecGateFair == SpecGate /\ GateFairness

\* the network calls in progress
InFlight == {t \in Tasks : t_pc[t] = "await"}
Holders == {t \in Tasks : permit[t]}

GateTypeOK ==
    /\ connection_semaphore \in 0..max_connections
    /\ connection_semaphore + Cardinality(Holders) = max_connections
    /\ connection_semaphore > 0 => waiters = <<>>

Quiet == \A t \in Tasks : t_pc[t] \in {"done", "dropped"}

C12_PutDeleteHoldOnePermit ==
    \A t \in Tasks : t_op[t] \in {"put", "delete"} =>
        /\ t_pc[t] = "acquire" => ~permit[t] /\ acquired[t] = 0
        /\ t_pc[t] \in {"client", "await", "sleep"} =>
                permit[t] /\ acquired[t] = 1
        /\ t_pc[t] = "done" => ~permit[t] /\ acquired[t] = 1

\* a put sleeps before its last retry, still holding the permit another
\* call is queued for
C12_Witness ==
    \E t \in Tasks :
        /\ t_op[t] = "put" /\ t_pc[t] = "sleep"
        /\ t_attempts[t] = MAX_NUM_RETRIES
        /\ permit[t] /\ waiters # <<>>

\* C13: an operation dropped at a suspension point gives back the permit it
\* held, and once every operation has completed or been dropped all
\* max_connections permits are available again.
C13_DropReturnsPermit ==
    /\ \A t \in Tasks : t_pc[t] = "dropped" => ~permit[t]
    /\ Quiet => connection_semaphore = max_connections /\ waiters = <<>>

\* everything is over, one call was dropped in its backoff sleep and
\* another while its request was in flight
C13_Witness ==
    /\ Quiet
    /\ \E t, u \in Tasks : cancelled[t] = "sleep" /\ cancelled[u] = "await"

\* every permit taken by a call other than `t` is given back at some time
HoldersLetGo(t) == \A u \in Tasks \ {t} : [](permit[u] => <>~permit[u])

\* the call of `t` is not dropped before it has got its client
NotDroppedWaiting(t) == [](cancelled[t] \notin {"acquire", "client"})

\* C14: a call that finds no permit is suspended, and if every holder of a
\* permit lets go of it at some time (and the call itself is not dropped)
\* the call gets a permit and goes on to its request.
C14_WaiterEventuallyServed ==
    \A t \in Tasks :
        (HoldersLetGo(t) /\ NotDroppedWaiting(t)) =>
            ((t_pc[t] = "acquire") ~> (permit[t] /\ t_pc[t] \in {"await", "stream"}))

\* a call that had to queue has its request in flight
C14_Witness ==
    \E t \in Tasks :
        /\ t_pc[t] = "await" /\ permit[t]
        /\ \E u \in Tasks : u # t /\ t_pc[u] \in {"done", "dropped"} /\ acquired[u] = 1
        /\ connection_semaphore = 0 /\ max_connections = 1

----------------------------------------------------------------------------
(* put, get and delete of the three adapters against a bucket (SpecStore)  *)
(*                                                                         *)
(* The backend applies a request exactly when it answers it with success.  *)

Keys == {"k1", "k2"}
Datas == {<<1>>, <<1, 2>>}
bucket_name == "bucket"

\* rusoto_core::RusotoError::Service(GetObjectError::NoSuchKey(_))
NoSuchKey == OtherError("Service(NoSuchKey)")

\* cloud_storage::Error: the variants Google (a structured error response)
\* and Other (a message text, here a sequence of words)
Google(status) == [variant |-> "Google", status |-> status, text |-> <<>>]
GcsOther(text) == [variant |-> "Other", status |-> 0, text |-> text]

\* the boxed error of the Azure SDK
AzureError(status) == [variant |-> "Box", status |-> status]

NoSuchObject == <<"No", "such", "object">>

\* str::starts_with
StartsWith(text, pat) ==
    Len(text) >= Len(pat) /\ SubSeq(text, 1, Len(pat)) = pat

\* str::contains
Contains(text, pat) ==
    \E i \in 1..(Len(text) - Len(pat) + 1) :
        SubSeq(text, i, i + Len(pat) - 1) = pat

\* the message texts of the Other variant
GcsTexts ==
    {NoSuchObject \o <<":", k>> : k \in Keys}
        \cup {<<"Error", ":">> \o NoSuchObject, <<"No", "such", "bucket">>}

\* the error values of the adapters; `bucket` is None in the variants that
\* have no such field
StoreError(kind, b, location, source) ==
    [kind |-> kind, bucket |-> b, location |-> location, source |-> source]

\* a put that sends only the first byte
put_body_first_byte(data) == SubSeq(data, 1, 1)

\* the body of the put request is the bytes the caller gave: aws.rs 188-198,
\* azure.rs 82-86, gcp.rs 106-111
put_body(data) == data

\* aws.rs 237-249
s3_get_error(e, key) ==
    IF e = NoSuchKey
    THEN StoreError("NotFound", None, key, e)
    ELSE StoreError("UnableToGetData", Some(bucket_name), key, e)

\* a classification by str::contains
gcs_not_found_contains(e) ==
    e.variant = "Other" /\ Contains(e.text, NoSuchObject)

\* gcp.rs 139: Error::Other(ref text) if text.starts_with("No such object")
gcs_not_found(e) ==
    e.variant = "Other" /\ StartsWith(e.text, NoSuchObject)

\* gcp.rs 138-151
gcs_get_error(e, key) ==
    IF gcs_not_found(e)
    THEN StoreError("NotFound", None, key, e)
    ELSE StoreError("UnableToGetData", Some(bucket_name), key, e)

RECURSIVE Chunkings(_)
\* the ways a body can arrive in non-empty chunks
Chunkings(d) ==
    IF d = <<>> THEN {<<>>}
    ELSE UNION {{<<Ok(SubSeq(d, 1, i))>> \o c :
                    c \in Chunkings(SubSeq(d, i + 1, Len(d)))} : i \in 1..Len(d)}

\* the items of a rusoto ByteStream: the chunks of the body, or some of them
\* and then an io error
BodyStreams(d) ==
    Chunkings(d) \cup
        UNION {{SubSeq(c, 1, j) \o <<Err("io")>> : j \in 0..(Len(c) - 1)} :
                  c \in Chunkings(d)}

\* failures the SDK can report whether or not the key exists
Failures(a) ==
    CASE a = "s3" -> {Unknown(503), OtherError("HttpDispatch")}
      [] a = "gcs" -> {Google(503)} \cup {GcsOther(t) : t \in GcsTexts \ {NoSuchObject \o <<":", k>> : k \in Keys}}
      [] OTHER -> {AzureError(503)}

\* what the backend answers to a get of a key that does not exist:
\* aws.rs 804-842, gcp.rs 370-396
GetMissing(a, key) ==
    CASE a = "s3" -> {Err(NoSuchKey)}
      [] a = "gcs" -> {Err(GcsOther(NoSuchObject \o <<":", key>>))}
      [] OTHER -> {Err(AzureError(404))}

\* what the backend answers to a delete of a key that does not exist:
\* aws.rs 959-979, gcp.rs 423-449; the source does not show it for Azure
DeleteMissing(a) ==
    CASE a = "s3" -> {Ok(None)}
      [] a = "gcs" -> {Err(Google(404))}
      [] OTHER -> {Ok(None), Err(AzureError(404))}

\* what the SDK hands back for a stored object: GetObjectOutput.body on S3
\* (an Option of a stream), the bytes on GCS and Azure
Bodies(a, d) ==
    IF a = "s3" THEN {Ok(None)} \cup {Ok(Some(b)) : b \in BodyStreams(d)}
    ELSE {Ok(d)}

\* the answers of the SDK to the request of call `c`
SdkAnswers(a, c) ==
    {Err(e) : e \in Failures(a)} \cup
    CASE c.op = "put" -> {Ok(None)}
      [] c.op = "delete" ->
            IF bucket[c.key] # None THEN {Ok(None)} ELSE DeleteMissing(a)
      [] OTHER ->
            IF bucket[c.key] # None THEN Bodies(a, Unwrap(bucket[c.key]))
            ELSE GetMissing(a, c.key)

\* an error item that is passed on as the error of the get call
s3_get_piece_as_get_error(item, key) ==
    IF item.ok THEN item
    ELSE Err(StoreError("UnableToGetData", Some(bucket_name), key, item.err))

\* aws.rs 257-261: the map_err over the items of the body stream
s3_get_piece(item, key) ==
    IF item.ok THEN item
    ELSE Err(StoreError("UnableToGetPieceOfData", Some(bucket_name), key,
                        item.err))

\* aws.rs 233-264
s3_get_result(r, key) ==
    IF ~r.ok THEN Err(s3_get_error(r.err, key))
    ELSE IF r.val = None
    THEN Err(StoreError("NoData", Some(bucket_name), key, None))
    ELSE LET body == Unwrap(r.val) IN
         Ok([i \in 1..Len(body) |-> s3_get_piece(body[i], key)])

\* gcp.rs 134-154
gcs_get_result(r, key) ==
    IF r.ok THEN Ok(<<Ok(r.val)>>) ELSE Err(gcs_get_error(r.err, key))

\* azure.rs 104-118: the one item of the stream that get hands out
azure_get_result(r, key) ==
    Ok(<<IF r.ok THEN Ok(r.val) ELSE Err(StoreError("Get", None, key, r.err))>>)

\* a delete that turns every answer into Ok
gcs_delete_result_ok(r, key) == Ok(None)

\* gcp.rs 165-174
gcs_delete_result(r, key) ==
    IF r.ok THEN Ok(None)
    ELSE Err(StoreError("UnableToDeleteData", Some(bucket_name), key, r.err))

\* the result of a put or delete: aws.rs 205-216 and 282-293, azure.rs
\* 82-92 and 126-136, gcp.rs 103-120
unit_result(a, c, r) ==
    IF r.ok THEN Ok(None)
    ELSE CASE a = "azure" ->
                Err(StoreError(IF c.op = "put" THEN "Put" ELSE "Delete",
                               None, c.key, r.err))
           [] a = "gcs" /\ c.op = "delete" -> gcs_delete_result(r, c.key)
           [] OTHER ->
                Err(StoreError(IF c.op = "put" THEN "UnableToPutData"
                               ELSE "UnableToDeleteData",
                               Some(bucket_name), c.key, r.err))

call_result(a, c, r) ==
    CASE c.op # "get" -> unit_result(a, c, r)
      [] a = "s3" -> s3_get_result(r, c.key)
      [] a = "gcs" -> gcs_get_result(r, c.key)
      [] OTHER -> azure_get_result(r, c.key)

Never == [st |-> "never", data |-> <<>>, overwritten |-> FALSE]
Deleted == [st |-> "deleted", data |-> <<>>, overwritten |-> FALSE]
Written(d, o) == [st |-> "written", data |-> d, overwritten |-> o]

StoreInit ==
    /\ s_adapter \in {"s3", "azure", "gcs"}
    /\ bucket = [k \in Keys |-> None]
    /\ history = [k \in Keys |-> Never]
    /\ s_call = None
    /\ s_pc = "idle"
    /\ s_attempts = 0
    /\ s_requests = 0
    /\ s_last = None
    /\ EngineIdle /\ GateIdle /\ CfgIdle /\ CacheIdle /\ MockIdle
    /\ TraceIdle
    /\ ScanIdle
    /\ NestedIdle
    /\ FoldIdle
    /\ PairIdle

\* the call is made; on Azure get builds its stream and returns it without
\* a request (azure.rs 101-118), everywhere else the first request goes out
store_enter(c) ==
    /\ s_call' = Some(c)
    /\ s_attempts' = 0
    /\ IF s_adapter = "azure" /\ c.op = "get"
       THEN s_pc' = "stream" /\ s_requests' = 0
       ELSE s_pc' = "await" /\ s_requests' = 1
    /\ UNCHANGED <<s_adapter, bucket, history, s_last>>
    /\ UNCHANGED outsideStore

store_put ==
    /\ s_pc = "idle"
    /\ \E k \in Keys, d \in Datas :
        store_enter([op |-> "put", key |-> k, data |-> d])

store_get ==
    /\ s_pc = "idle"
    /\ \E k \in Keys : store_enter([op |-> "get", key |-> k, data |-> <<>>])

store_delete ==
    /\ s_pc = "idle"
    /\ \E k \in Keys : store_enter([op |-> "delete", key |-> k, data |-> <<>>])

\* azure.rs 104-115: the caller polls the stream, the request goes out
store_poll_stream ==
    /\ s_pc = "stream"
    /\ s_pc' = "await"
    /\ s_requests' = s_requests + 1
    /\ UNCHANGED <<s_adapter, bucket, history, s_call, s_attempts, s_last>>
    /\ UNCHANGED outsideStore

\* the SDK answers the request in flight and the call goes on: put and
\* delete of S3 are inside s3_request (aws.rs 597-623), every other call
\* returns
store_response ==
    /\ s_pc = "await"
    /\ LET c == Unwrap(s_call) IN
       \E r \in SdkAnswers(s_adapter, c) :
        /\ bucket' =
              IF r.ok /\ c.op = "put"
              THEN [bucket EXCEPT ![c.key] = Some(put_body(c.data))]
              ELSE IF r.ok /\ c.op = "delete"
              THEN [bucket EXCEPT ![c.key] = None]
              ELSE bucket
        /\ IF /\ s_adapter = "s3" /\ c.op # "get" /\ ~r.ok
              /\ ~give_up(s_attempts + 1, r.err)
           THEN /\ s_pc' = "sleep"
                /\ s_attempts' = s_attempts + 1
                /\ UNCHANGED <<history, s_call, s_last, s_requests>>
           ELSE LET res == call_result(s_adapter, c, r) IN
                /\ s_pc' = "idle"
                /\ s_attempts' = 0
                /\ s_requests' = 0
                /\ s_call' = None
                /\ s_last' = Some([op |-> c.op, key |-> c.key, data |-> c.data,
                                   was |-> bucket[c.key],
                                   hist |-> history[c.key],
                                   others |-> \A k \in Keys \ {c.key} :
                                                 bucket'[k] = bucket[k],
                                   sdk |-> r,
                                   requests |-> s_requests,
                                   lazy |-> s_adapter = "azure" /\ c.op = "get",
                                   res |-> res])
                /\ history' =
                      IF res.ok /\ c.op = "put"
                      THEN [history EXCEPT ![c.key] =
                                Written(c.data, history[c.key].st = "written")]
                      ELSE IF res.ok /\ c.op = "delete"
                      THEN [history EXCEPT ![c.key] = Deleted]
                      ELSE history
    /\ UNCHANGED s_adapter
    /\ UNCHANGED outsideStore

\* aws.rs 619-622: the backoff is over, the next attempt goes out
store_wake ==
    /\ s_pc = "sleep"
    /\ s_pc' = "await"
    /\ s_requests' = s_requests + 1
    /\ UNCHANGED <<s_adapter, bucket, history, s_call, s_attempts, s_last>>
    /\ UNCHANGED outsideStore

StoreNext ==
    \/ store_put
    \/ store_get
    \/ store_delete
    \/ store_poll_stream
    \/ store_response
    \/ store_wake

SpecStore == StoreInit /\ [][StoreNext]_vars

----------------------------------------------------------------------------
(* put, get and delete: claims C15 - C18 *)

\* the call that resolved last
Last == Unwrap(s_last)

\* the SDK's answer to the last call was about the key, not one of the
\* failures that can hit any request
Answered(l) == l.sdk.ok \/ l.sdk.err \notin Failures(s_adapter)

\* the key of the last call did not exist when the call was made
KeyMissing(l) == l.was = None /\ l.hist.st \in {"never", "deleted"}

AllOk(items) == \A i \in 1..Len(items) : items[i].ok

RECURSIVE Concat(_)
Concat(items) ==
    IF items = <<>> THEN <<>> ELSE Head(items).val \o Concat(Tail(items))

\* C15: delete of a key that does not exist returns Ok and leaves the store
\* as it was (stated for the adapters whose tests show the backend's answer,
\* S3 and GCS).
C15_Original ==
    (s_last # None /\ s_adapter \in {"s3", "gcs"}) =>
        ((Last.op = "delete" /\ KeyMissing(Last) /\ Answered(Last)) =>
            /\ Last.res.ok
            /\ bucket[Last.key] = None /\ Last.others)

\* C16: on GCS, delete of a location that does not exist returns
\* UnableToDeleteData with the SDK's Google variant as its source, the
\* configured bucket and the raw key; the bucket is left as it was.
C16_GcsDeleteMissingFails ==
    (s_last # None /\ s_adapter = "gcs") =>
        ((Last.op = "delete" /\ KeyMissing(Last) /\ Answered(Last)) =>
            /\ ~Last.res.ok
            /\ Last.res.err.kind = "UnableToDeleteData"
            /\ Last.res.err.source.variant = "Google"
            /\ Last.res.err.bucket = Some(bucket_name)
            /\ Last.res.err.location = Last.key
            /\ bucket[Last.key] = None /\ Last.others)

\* a second delete of the same key on GCS has been answered
C16_Witness ==
    /\ s_last # None /\ s_adapter = "gcs"
    /\ Last.op = "delete" /\ Last.hist.st = "deleted" /\ Answered(Last)
    /\ \E k \in Keys \ {Last.key} : bucket[k] # None

\* C17: a get of a key whose last successful put or delete was a put of
\* `bytes` does not report the key missing, and when it hands out a stream
\* that ends without an error item the concatenated chunks are `bytes`.
C17_GetReturnsLastPut ==
    s_last # None =>
        ((Last.op = "get" /\ Last.hist.st = "written") =>
            /\ Last.res.ok =>
                 /\ AllOk(Last.res.val) => Concat(Last.res.val) = Last.hist.data
                 /\ \A i \in 1..Len(Last.res.val) :
                       ~Last.res.val[i].ok => Last.res.val[i].err.kind # "NotFound"
            /\ ~Last.res.ok => Last.res.err.kind # "NotFound")

\* a key was put twice and the get hands the second value out in two chunks
C17_Witness ==
    /\ s_last # None
    /\ Last.op = "get" /\ Last.hist.overwritten
    /\ Last.res.ok /\ AllOk(Last.res.val) /\ Len(Last.res.val) > 1
    /\ Concat(Last.res.val) = Last.hist.data

\* C18: a get of a key that does not exist fails at the call, with NotFound
\* carrying the location, before any stream is handed out.
C18_Original ==
    s_last # None =>
        ((Last.op = "get" /\ KeyMissing(Last) /\ Answered(Last)) =>
            /\ ~Last.lazy
            /\ ~Last.res.ok
            /\ Last.res.err.kind = "NotFound"
            /\ Last.res.err.location = Last.key)

\* C19 as stated: a failed GCS download becomes NotFound exactly when the SDK
\* error is the Other variant and its text contains "No such object"; every
\* other error becomes UnableToGetData with bucket and location.
C19_Original ==
    (s_last # None /\ s_adapter = "gcs") =>
        ((Last.op = "get" /\ ~Last.sdk.ok) =>
            /\ ~Last.res.ok
            /\ Last.res.err.kind = "NotFound" <=>
                    /\ Last.sdk.err.variant = "Other"
                    /\ Contains(Last.sdk.err.text, NoSuchObject)
            /\ Last.res.err.kind # "NotFound" =>
                    /\ Last.res.err.kind = "UnableToGetData"
                    /\ Last.res.err.bucket = Some(bucket_name)
                    /\ Last.res.err.location = Last.key)

\* C19: a failed GCS download becomes NotFound exactly when the SDK error is
\* the Other variant and its text starts with "No such object"; every other
\* error becomes UnableToGetData with bucket and location; the SDK error is
\* the source in both cases.
C19_NotFoundIffTextStartsWith ==
    (s_last # None /\ s_adapter = "gcs") =>
        ((Last.op = "get" /\ ~Last.sdk.ok) =>
            /\ ~Last.res.ok
            /\ Last.res.err.source = Last.sdk.err
            /\ Last.res.err.location = Last.key
            /\ Last.res.err.kind = "NotFound" <=>
                    /\ Last.sdk.err.variant = "Other"
                    /\ StartsWith(Last.sdk.err.text, NoSuchObject)
            /\ Last.res.err.kind # "NotFound" =>
                    /\ Last.res.err.kind = "UnableToGetData"
                    /\ Last.res.err.bucket = Some(bucket_name))

\* the text has "No such object" in it, but not at its start
C19_Witness ==
    /\ s_last # None /\ s_adapter = "gcs"
    /\ Last.op = "get" /\ ~Last.sdk.ok
    /\ Last.sdk.err.variant = "Other"
    /\ Contains(Last.sdk.err.text, NoSuchObject)
    /\ ~StartsWith(Last.sdk.err.text, NoSuchObject)
    /\ Last.res.err.kind = "UnableToGetData"

----------------------------------------------------------------------------
(* The construction of the S3 adapter (SpecConfig)                         *)

\* region strings: two that rusoto knows and two that it does not
KnownRegions == {"us-east-1", "us-west-1"}
Regions == KnownRegions \cup {"nowhere", ""}

\* aws.rs 400: region.parse() of rusoto_core::Region
parse_region(r) ==
    IF r \in KnownRegions THEN Ok([name |-> r, endpoint |-> None])
    ELSE Err([kind |-> "InvalidRegion", region |-> r])

\* a region that is parsed even when a custom endpoint is given
region_of_always_parsed(r, ep) == parse_region(r)

\* aws.rs 399-405
region_of(r, ep) ==
    IF ep = None THEN parse_region(r)
    ELSE Ok([name |-> r, endpoint |-> ep])

\* a match that falls back to the instance metadata when a key is missing
credentials_lenient(ak, sk, tok) ==
    IF ak # None /\ sk # None
    THEN Ok(IF tok # None THEN "StaticProvider::new"
            ELSE "StaticProvider::new_minimal")
    ELSE Ok("InstanceMetadataProvider")

\* aws.rs 412-433: the match on (access_key_id, secret_access_key,
\* session_token)
credentials(ak, sk, tok) ==
    CASE ak # None /\ sk # None /\ tok # None -> Ok("StaticProvider::new")
      [] ak # None /\ sk # None /\ tok = None -> Ok("StaticProvider::new_minimal")
      [] ak = None /\ sk # None -> Err([kind |-> "MissingAccessKey"])
      [] ak # None /\ sk = None -> Err([kind |-> "MissingSecretAccessKey"])
      [] OTHER -> Ok("InstanceMetadataProvider")

CfgInit ==
    /\ access_key_id \in {None, Some("id")}
    /\ secret_access_key \in {None, Some("secret")}
    /\ session_token \in {None, Some("token")}
    /\ region \in Regions
    /\ endpoint \in {None, Some("http://localhost")}
    /\ new_s3_result = None
    /\ max_connections \in 1..MaxConnections
    /\ connection_semaphore = 0
    /\ waiters = <<>>
    /\ t_op = <<>>
    /\ t_pc = <<>>
    /\ t_attempts = <<>>
    /\ t_state = <<>>
    /\ permit = <<>>
    /\ acquired = <<>>
    /\ cancelled = <<>>
    /\ EngineIdle /\ StoreIdle /\ CacheIdle /\ MockIdle
    /\ TraceIdle
    /\ ScanIdle
    /\ NestedIdle
    /\ FoldIdle
    /\ PairIdle

\* aws.rs 389-440
new_s3 ==
    /\ new_s3_result = None
    /\ LET reg == region_of(region, endpoint)
           cred == credentials(access_key_id, secret_access_key, session_token)
       IN  IF ~reg.ok
           THEN /\ new_s3_result' = Some(Err(reg.err))
                /\ UNCHANGED connection_semaphore
           ELSE IF ~cred.ok
           THEN /\ new_s3_result' = Some(Err(cred.err))
                /\ UNCHANGED connection_semaphore
           ELSE /\ new_s3_result' =
                      Some(Ok([region |-> reg.val, credentials |-> cred.val,
                               bucket_name |-> bucket_name]))
                /\ connection_semaphore' = new_semaphore(max_connections)
    /\ UNCHANGED <<access_key_id, secret_access_key, session_token, region,
                   endpoint>>
    /\ UNCHANGED <<max_connections, waiters, t_op, t_pc, t_attempts, t_state,
                   permit, acquired, cancelled>>
    /\ UNCHANGED outsideCfg

CfgNext == new_s3

SpecConfig == CfgInit /\ [][CfgNext]_vars

\* the region check of new_s3 lets these arguments through
RegionAccepted == endpoint # None \/ region \in KnownRegions

\* no request has gone out
NoRequest == outstanding = 0 /\ calls = 0 /\ s_requests = 0

\* C20 as stated: access key without secret gives MissingSecretAccessKey,
\* secret without access key gives MissingAccessKey, both or neither
\* succeeds, with or without a session token, and no request is made.
C20_Original ==
    new_s3_result # None =>
        LET r == Unwrap(new_s3_result) IN
        /\ NoRequest
        /\ CASE access_key_id # None /\ secret_access_key = None ->
                    ~r.ok /\ r.err.kind = "MissingSecretAccessKey"
             [] access_key_id = None /\ secret_access_key # None ->
                    ~r.ok /\ r.err.kind = "MissingAccessKey"
             [] OTHER -> r.ok

\* C20: when the region check lets the arguments through, access key
\* without secret gives MissingSecretAccessKey, secret without access key
\* gives MissingAccessKey, both or neither succeeds, with or without a
\* session token; when it does not, the result is InvalidRegion whatever
\* the credentials are; no request is made.
C20_CredentialsCheckedAfterRegion ==
    new_s3_result # None =>
        LET r == Unwrap(new_s3_result) IN
        /\ NoRequest
        /\ ~RegionAccepted => ~r.ok /\ r.err.kind = "InvalidRegion"
        /\ RegionAccepted =>
            CASE access_key_id # None /\ secret_access_key = None ->
                    ~r.ok /\ r.err.kind = "MissingSecretAccessKey"
              [] access_key_id = None /\ secret_access_key # None ->
                    ~r.ok /\ r.err.kind = "MissingAccessKey"
              [] OTHER -> r.ok

\* an access key and a session token without a secret, in a known region
C20_Witness ==
    /\ new_s3_result # None
    /\ access_key_id # None /\ secret_access_key = None /\ session_token # None
    /\ endpoint = None /\ region \in KnownRegions
    /\ Unwrap(new_s3_result).err.kind = "MissingSecretAccessKey"

\* new_s3 has returned InvalidRegion
InvalidRegionReturned ==
    /\ new_s3_result # None
    /\ ~Unwrap(new_s3_result).ok
    /\ Unwrap(new_s3_result).err.kind = "InvalidRegion"

\* C21: without a custom endpoint new_s3 fails with InvalidRegion exactly
\* when the region string is not a known region; with a custom endpoint
\* every region string is accepted and kept as the name of the custom
\* region; the result is there when new_s3 returns, no request has been made.
C21_InvalidRegionIffUnparsedWithoutEndpoint ==
    new_s3_result # None =>
        /\ NoRequest
        /\ endpoint = None =>
              /\ InvalidRegionReturned <=> region \notin KnownRegions
              /\ InvalidRegionReturned =>
                    Unwrap(new_s3_result).err.region = region
        /\ endpoint # None =>
              /\ ~InvalidRegionReturned
              /\ Unwrap(new_s3_result).ok =>
                    Unwrap(new_s3_result).val.region =
                        [name |-> region, endpoint |-> endpoint]

\* an unknown region name is accepted because a custom endpoint was given
C21_Witness ==
    /\ new_s3_result # None
    /\ endpoint # None /\ region \notin KnownRegions
    /\ Unwrap(new_s3_result).ok

----------------------------------------------------------------------------
(* Which calls are retried: claims C22 - C25 *)

\* a 5xx answer of any of the three SDKs
Is5xx(e) == is_server_error(e.status)

\* C22: an S3 get whose request is answered with a 5xx error is attempted
\* again, so that the error reaches the caller only after 1 + 3 requests.
C22_Original ==
    (s_last # None /\ s_adapter = "s3") =>
        ((Last.op = "get" /\ ~Last.sdk.ok /\ Is5xx(Last.sdk.err)) =>
            Last.requests = MAX_NUM_RETRIES + 1)

\* C23: on every adapter a put whose request is answered with a 5xx error
\* is attempted again, so that the error reaches the caller only after
\* 1 + 3 requests.
C23_Original ==
    s_last # None =>
        ((Last.op = "put" /\ ~Last.sdk.ok /\ Is5xx(Last.sdk.err)) =>
            Last.requests = MAX_NUM_RETRIES + 1)

\* the transient kind as the claim words it: a 5xx answer or a failure to
\* reach the server
TransientKind(e) == Transient5xx(e) \/ e = OtherError("HttpDispatch")

\* C24: when s3_request has returned, a failed attempt was followed by
\* another one exactly if its error was of the transient kind (5xx or
\* network unreachable) and the retries were not used up.
C24_Original ==
    Returned =>
        \A i \in 1..Len(outcomes) :
            ~outcomes[i].ok =>
                (i < Len(outcomes) <=>
                    (TransientKind(outcomes[i].err) /\ i <= MAX_NUM_RETRIES))

CKeys == {"a", "b", "c"}

\* largest object of the remote store, in bytes
MaxObjectSize == 2

\* largest configured limit of the cache, in bytes
MaxLimit == 3

\* a cache entry; last_access is its position in the table
Entry(k, sz) == [key |-> k, local_file |-> <<"cache", k>>, size |-> sz]

EntryKeys(entries) == {entries[i].key : i \in 1..Len(entries)}

\* Cache::size: the bytes the cached files take up
size(entries) == SumSeq([i \in 1..Len(entries) |-> entries[i].size])

\* Cache::limit
limit == c_limit

\* the entries that callers are reading: a caller holds the lease on the
\* entry of its key from the return of fs_path_or_cache until it is done
\* with the file
Leased == {Unwrap(c_key[t]) : t \in {u \in Tasks : c_pc[u] = "read"}}

\* the entry of a key, if it has one
lookup(entries, k) ==
    LET at == {i \in 1..Len(entries) : entries[i].key = k}
    IN  IF at = {} THEN None ELSE Some(entries[CHOOSE i \in at : TRUE])

without(entries, k) == SelectSeq(entries, LAMBDA e : e.key # k)

\* a hit makes the entry the most recently accessed one
touch_reversed(entries, k) ==
    <<Unwrap(lookup(entries, k))>> \o without(entries, k)
touch(entries, k) ==
    without(entries, k) \o <<Unwrap(lookup(entries, k))>>

\* the cache is over its limit
over_budget_by_two(total, lim) == total > lim + 1
over_budget(total, lim) == total > lim

\* an entry may be evicted unless a caller reads it
evictable_any(e, leased) == TRUE
evictable(e, leased) == e.key \notin leased

Candidates(entries, leased) ==
    {i \in 1..Len(entries) : evictable(entries[i], leased)}

\* the entry to evict next: the least recently accessed one of those that
\* may be evicted
victim_newest(cands) == CHOOSE i \in cands : \A j \in cands : j <= i
victim(cands) == CHOOSE i \in cands : \A j \in cands : i <= j

\* eviction after an insertion: while the cache is over its limit, evict
\* the least recently accessed entry that is not leased
RECURSIVE budget_evict(_, _, _, _)
budget_evict(entries, leased, lim, evicted) ==
    LET cands == Candidates(entries, leased)
    IN  IF over_budget(size(entries), lim) /\ cands # {}
        THEN LET v == entries[victim(cands)]
             IN  budget_evict(without(entries, v.key), leased, lim,
                              Append(evicted, v.key))
        ELSE [entries |-> entries, evicted |-> evicted]

\* what a step did: its kind, the caller (0: none of the tasks) and key,
\* the table and the leases it found, the keys it evicted in the order of
\* their eviction, and what it returned
NoEvent == [kind |-> "none", caller |-> 0, key |-> "", before |-> <<>>,
            leased |-> {}, evicted |-> <<>>, res |-> None]

Event(kind, t, k, evicted, res) ==
    [kind |-> kind, caller |-> t, key |-> k, before |-> c_entries,
     leased |-> Leased, evicted |-> evicted, res |-> res]

CacheInit ==
    /\ c_limit \in 1..MaxLimit
    /\ c_sizes \in [CKeys -> 1..MaxObjectSize]
    /\ c_entries = <<>>
    /\ c_pc = [t \in Tasks |-> "idle"]
    /\ c_key = [t \in Tasks |-> None]
    /\ c_event = NoEvent
    /\ EngineIdle /\ GateIdle /\ StoreIdle /\ CfgIdle /\ MockIdle
    /\ TraceIdle
    /\ ScanIdle
    /\ NestedIdle
    /\ FoldIdle
    /\ PairIdle

\* Cache::fs_path_or_cache up to its first suspension: a hit returns the
\* path of the entry and refreshes its last access; a miss sends the get to
\* the remote store
fs_path_or_cache(t, k) ==
    /\ c_pc[t] = "idle"
    /\ c_key' = [c_key EXCEPT ![t] = Some(k)]
    /\ LET found == lookup(c_entries, k)
       IN  IF IsSome(found)
           THEN /\ c_entries' = touch(c_entries, k)
                /\ c_pc' = [c_pc EXCEPT ![t] = "read"]
                /\ c_event' = Event("hit", t, k, <<>>,
                                    Some(Ok(Unwrap(found).local_file)))
           ELSE /\ c_entries' = c_entries
                /\ c_pc' = [c_pc EXCEPT ![t] = "fetch"]
                /\ c_event' = Event("miss", t, k, <<>>, None)
    /\ UNCHANGED <<c_limit, c_sizes, outsideCache>>

\* the object has arrived and its file is written: the entry is registered
\* and the cache evicts down to its limit.  When another caller registered
\* the key in the meantime its entry is used as in a hit.
cache_insert(t) ==
    /\ c_pc[t] = "fetch"
    /\ LET k == Unwrap(c_key[t])
           found == lookup(c_entries, k)
       IN  IF IsSome(found)
           THEN /\ c_entries' = touch(c_entries, k)
                /\ c_event' = Event("joined", t, k, <<>>,
                                    Some(Ok(Unwrap(found).local_file)))
           ELSE LET e == Entry(k, c_sizes[k])
                    r == budget_evict(Append(c_entries, e),
                                      Leased \cup {k}, limit, <<>>)
                IN  /\ c_entries' = r.entries
                    /\ c_event' = Event("insert", t, k, r.evicted,
                                        Some(Ok(e.local_file)))
    /\ c_pc' = [c_pc EXCEPT ![t] = "read"]
    /\ UNCHANGED <<c_limit, c_sizes, c_key, outsideCache>>

\* the get failed or the call was dropped while it fetched: no entry and no
\* file is left behind
cache_abandon(t) ==
    /\ c_pc[t] = "fetch"
    /\ c_pc' = [c_pc EXCEPT ![t] = "idle"]
    /\ c_key' = [c_key EXCEPT ![t] = None]
    /\ c_event' = Event("abandon", t, Unwrap(c_key[t]), <<>>, None)
    /\ UNCHANGED <<c_limit, c_sizes, c_entries, outsideCache>>

\* the caller is done with the file and lets go of its lease
cache_release(t) ==
    /\ c_pc[t] = "read"
    /\ c_pc' = [c_pc EXCEPT ![t] = "idle"]
    /\ c_key' = [c_key EXCEPT ![t] = None]
    /\ c_event' = Event("release", t, Unwrap(c_key[t]), <<>>, None)
    /\ UNCHANGED <<c_limit, c_sizes, c_entries, outsideCache>>

\* Cache::evict: the entry of one key is removed; an entry that is being
\* read cannot be evicted
evict(k) ==
    /\ k \in EntryKeys(c_entries)
    /\ IF evictable(Unwrap(lookup(c_entries, k)), Leased)
       THEN /\ c_entries' = without(c_entries, k)
            /\ c_event' = Event("evict", 0, k, <<k>>, Some(Ok("unit")))
       ELSE /\ c_entries' = c_entries
            /\ c_event' = Event("evict", 0, k, <<>>,
                          Some(Err([variant |-> "UnableToEvict",
                                    name |-> k])))
    /\ UNCHANGED <<c_limit, c_sizes, c_pc, c_key, outsideCache>>

CacheNext ==
    \/ \E t \in Tasks, k \in CKeys : fs_path_or_cache(t, k)
    \/ \E t \in Tasks : cache_insert(t)
    \/ \E t \in Tasks : cache_abandon(t)
    \/ \E t \in Tasks : cache_release(t)
    \/ \E k \in CKeys : evict(k)

SpecCache == CacheInit /\ [][CacheNext]_vars

CacheTypeOK ==
    /\ c_limit \in 1..MaxLimit
    /\ c_sizes \in [CKeys -> 1..MaxObjectSize]
    /\ EntryKeys(c_entries) \subseteq CKeys
    /\ \A i, j \in 1..Len(c_entries) :
          c_entries[i].key = c_entries[j].key => i = j
    /\ \A i \in 1..Len(c_entries) :
          c_entries[i] = Entry(c_entries[i].key, c_sizes[c_entries[i].key])
    /\ c_pc \in [Tasks -> {"idle", "fetch", "read"}]
    /\ c_key \in [Tasks -> {None} \cup {Some(k) : k \in CKeys}]
    /\ \A t \in Tasks : c_pc[t] = "idle" <=> c_key[t] = None

(***************************************************************************)
(* The cache: claims C26 - C29                                             *)
(***************************************************************************)

\* the step taken last registered a new entry
Inserted == c_event.kind = "insert"

\* the table an insertion evicts from: the table it found and the new entry
Registered ==
    Append(c_event.before, Entry(c_event.key, c_sizes[c_event.key]))

\* the leases an insertion has to respect: those it found and the one of
\* its own caller on the new entry
Held == c_event.leased \cup {c_event.key}

Place(k) == CHOOSE i \in 1..Len(Registered) : Registered[i].key = k

\* the table after the first n evictions of the insertion
RECURSIVE AfterEvictions(_)
AfterEvictions(n) ==
    IF n = 0 THEN Registered
    ELSE without(AfterEvictions(n - 1), c_event.evicted[n])

\* C27: the entries an insertion evicts go in the order of their last
\* access, oldest first; every eviction happens while the total is above
\* the limit; and when an entry is evicted every unleased entry with an
\* older last access has been evicted before it.
C27_EvictionInLruOrder ==
    Inserted =>
        LET ev == c_event.evicted
        IN  /\ \A i, j \in 1..Len(ev) :
                  i < j => Place(ev[i]) < Place(ev[j])
            /\ \A i \in 1..Len(ev) :
                  size(AfterEvictions(i - 1)) > limit
            /\ \A i \in 1..Len(ev) :
                  \A p \in 1..(Place(ev[i]) - 1) :
                      Registered[p].key \notin Held =>
                          \E h \in 1..(i - 1) : ev[h] = Registered[p].key
            /\ c_entries = AfterEvictions(Len(ev))

\* an insertion evicted two entries
C27_Witness ==
    /\ Inserted
    /\ Len(c_event.evicted) = 2
    /\ size(c_entries) <= limit

\* C28: no insertion evicts an entry that a caller is reading, and the
\* entry of every caller that is reading is in the table.
C28_LeasedEntryNotEvicted ==
    /\ Inserted =>
          \A i \in 1..Len(c_event.evicted) :
              c_event.evicted[i] \notin c_event.leased
    /\ \A t \in Tasks :
          c_pc[t] = "read" => Unwrap(c_key[t]) \in EntryKeys(c_entries)

\* an insertion over the limit found the least recently accessed entry
\* leased, kept it and evicted a younger one
C28_Witness ==
    /\ Inserted
    /\ Len(c_event.before) > 1
    /\ c_event.before[1].key \in c_event.leased
    /\ c_event.evicted # <<>>
    /\ c_event.before[1].key \in EntryKeys(c_entries)

\* C29: a call of fs_path_or_cache for a key that has an entry returns the
\* local path of that entry, makes it the most recently accessed entry and
\* leaves the order of the others alone, does not send its caller to the
\* remote store, and leaves the keys of the table and the total size as
\* they were.
C29_HitTouchesOnlyItsEntry ==
    c_event.kind = "hit" =>
        LET k == c_event.key
            old == Unwrap(lookup(c_event.before, k))
        IN  /\ c_event.res = Some(Ok(old.local_file))
            /\ c_pc[c_event.caller] = "read"
            /\ c_entries[Len(c_entries)] = old
            /\ without(c_entries, k) = without(c_event.before, k)
            /\ EntryKeys(c_entries) = EntryKeys(c_event.before)
            /\ size(c_entries) = size(c_event.before)
            /\ c_event.evicted = <<>>

\* a hit on the least recently accessed of three entries
C29_Witness ==
    /\ c_event.kind = "hit"
    /\ Len(c_event.before) = 3
    /\ c_event.before[1].key = c_event.key

(***************************************************************************)
(* The MockClient of the router: SpecMock.                                 *)
(*                                                                         *)
(* The tasks share one MockClient.  write returns a future; its body runs  *)
(* when the future is polled and does two things one after the other: it   *)
(* loads the flag poisoned, and it takes the lock of writes and pushes.    *)
(* Other tasks and poison() can run between the two.                       *)
(***************************************************************************)

\* largest number of write calls made on the client
MaxWrites == 3

\* the database names and writes of test_mock
DbNames == {"db1", "db2"}
DmlOperations == {"write1", "write2"}

\* self.poisoned.load(Ordering::SeqCst)
load_false(flag) == FALSE
load(flag) == flag

\* (db_name.to_string(), write.clone())
recorded(db_name, w) == <<db_name, w>>

MockInit ==
    /\ writes = <<>>
    /\ poisoned = FALSE
    /\ m_pc = [t \in Tasks |-> "idle"]
    /\ m_arg = [t \in Tasks |-> None]
    /\ m_pushed = <<>>
    /\ m_result = [t \in Tasks |-> None]
    /\ m_started = 0
    /\ poison_returned = FALSE
    /\ writes_at_poison = <<>>
    /\ EngineIdle /\ GateIdle /\ StoreIdle /\ CfgIdle /\ CacheIdle
    /\ TraceIdle
    /\ ScanIdle
    /\ NestedIdle
    /\ FoldIdle
    /\ PairIdle

\* MockClient::write: the call makes the future
write(t, db_name, w) ==
    /\ m_pc[t] = "idle"
    /\ m_started < MaxWrites
    /\ m_started' = m_started + 1
    /\ m_arg' = [m_arg EXCEPT ![t] =
                    Some([db_name |-> db_name, write |-> w,
                          serial |-> m_started + 1, task |-> t,
                          after_poison |-> poison_returned])]
    /\ m_result' = [m_result EXCEPT ![t] = None]
    /\ m_pc' = [m_pc EXCEPT ![t] = "called"]
    /\ UNCHANGED <<writes, poisoned, m_pushed, poison_returned,
                   writes_at_poison, outsideMock>>

\* the future is polled: it loads the flag and returns the error when the
\* flag is set
write_load(t) ==
    /\ m_pc[t] = "called"
    /\ IF load(poisoned)
       THEN /\ m_result' = [m_result EXCEPT ![t] = Some(Err("poisened"))]
            /\ m_pc' = [m_pc EXCEPT ![t] = "idle"]
       ELSE /\ m_result' = m_result
            /\ m_pc' = [m_pc EXCEPT ![t] = "checked"]
    /\ UNCHANGED <<writes, poisoned, m_arg, m_pushed, m_started,
                   poison_returned, writes_at_poison, outsideMock>>

\* self.writes.write().push(..); Ok(())
write_push(t) ==
    /\ m_pc[t] = "checked"
    /\ LET a == Unwrap(m_arg[t])
       IN  /\ writes' = Append(writes, recorded(a.db_name, a.write))
           /\ m_pushed' = Append(m_pushed, a)
    /\ m_result' = [m_result EXCEPT ![t] = Some(Ok("unit"))]
    /\ m_pc' = [m_pc EXCEPT ![t] = "idle"]
    /\ UNCHANGED <<poisoned, m_arg, m_started, poison_returned,
                   writes_at_poison, outsideMock>>

\* MockClient::poison: stores the flag and returns
poison ==
    /\ ~poison_returned
    /\ poisoned' = TRUE
    /\ poison_returned' = TRUE
    /\ writes_at_poison' = writes
    /\ UNCHANGED <<writes, m_pc, m_arg, m_pushed, m_result, m_started,
                   outsideMock>>

MockNext ==
    \/ \E t \in Tasks, db_name \in DbNames, w \in DmlOperations :
          write(t, db_name, w)
    \/ \E t \in Tasks : write_load(t)
    \/ \E t \in Tasks : write_push(t)
    \/ poison

SpecMock == MockInit /\ [][MockNext]_vars

MockTypeOK ==
    /\ writes \in Seq(DbNames \X DmlOperations)
    /\ Len(writes) = Len(m_pushed)
    /\ poisoned \in BOOLEAN
    /\ poison_returned = poisoned
    /\ m_pc \in [Tasks -> {"idle", "called", "checked"}]
    /\ m_started \in 0..MaxWrites
    /\ \A t \in Tasks : m_pc[t] # "idle" => IsSome(m_arg[t])

(***************************************************************************)
(* MockClient: claim C30                                                   *)
(***************************************************************************)

\* a write call made after poison() returned has failed, or is still to be
\* polled
FailsAfterPoison ==
    \A t \in Tasks :
        (IsSome(m_arg[t]) /\ Unwrap(m_arg[t]).after_poison) =>
            /\ m_pc[t] # "checked"
            /\ m_pc[t] = "idle" =>
                  (IsSome(m_result[t]) /\ ~Unwrap(m_result[t]).ok)

\* the recorded writes are the accepted calls with their database names,
\* and those of one task are in the order of its calls
RecordedInCallOrder ==
    /\ Len(writes) = Len(m_pushed)
    /\ \A i \in 1..Len(writes) :
          /\ writes[i][1] = m_pushed[i].db_name
          /\ writes[i][2] = m_pushed[i].write
    /\ \A i, j \in 1..Len(m_pushed) :
          (i < j /\ m_pushed[i].task = m_pushed[j].task) =>
              m_pushed[i].serial < m_pushed[j].serial

Awaited == Len(outcomes) + outstanding

\* C31: inside s3_request every request that is awaited comes fresh from
\* the factory: the number of factory calls equals the number of requests
\* awaited, at most one request is in flight, and when s3_request has
\* returned the factory has been called once per attempt (once per failure
\* counted, and once more when the last attempt succeeded).
C31_FreshRequestPerAttempt ==
    adapter = "s3" =>
        /\ calls = Awaited
        /\ outstanding \in {0, 1}
        /\ outstanding = 1 <=> pc = "await"
        /\ pc = "sleep" => calls = attempts
        /\ Returned =>
              calls = attempts + (IF outcomes[Len(outcomes)].ok THEN 1 ELSE 0)

\* three requests were generated for a put that failed twice and succeeded
C31_Witness ==
    /\ Returned /\ op = "put"
    /\ calls = 3 /\ attempts = 2
    /\ ReturnedValue.ok

(***************************************************************************)
(* The closure of the S3 listing stream on two responses: SpecPage.        *)
(*                                                                         *)
(* Two runs of the closure of list_objects_v2 (aws.rs 512-560) get one     *)
(* successful response each; the runs share nothing.                       *)
(***************************************************************************)

\* rusoto_s3::ListObjectsV2Output: contents, is_truncated and
\* next_continuation_token
ListObjectsV2Outputs ==
    {[batch |-> b, is_truncated |-> tr, next |-> t] :
        b \in {1, 2}, tr \in {None, Some(TRUE), Some(FALSE)}, t \in TokenOpt}

PageInit ==
    /\ p_resp \in ListObjectsV2Outputs \X ListObjectsV2Outputs
    /\ p_state = <<Start, Start>>
    /\ p_req = <<None, None>>
    /\ p_pc = "resp"
    /\ EngineIdle /\ GateIdle /\ StoreIdle /\ CfgIdle /\ CacheIdle /\ MockIdle
    /\ TraceIdle
    /\ ScanIdle
    /\ NestedIdle
    /\ FoldIdle

\* the request the closure issues when it is called in state `st`: none in
\* Done, otherwise one with the continuation token of the state
following_request(st) ==
    IF st.tag = "Done" THEN None ELSE Some(continuation_token(st))

\* aws.rs 548-559: each run computes its next state from its response
page_next_state ==
    /\ p_pc = "resp"
    /\ p_state' = <<next_state(p_resp[1]), next_state(p_resp[2])>>
    /\ p_pc' = "state"
    /\ UNCHANGED <<p_resp, p_req, outsidePair>>

\* aws.rs 516-540: each stream is polled again
page_poll ==
    /\ p_pc = "state"
    /\ p_req' = <<following_request(p_state[1]),
                  following_request(p_state[2])>>
    /\ p_pc' = "done"
    /\ UNCHANGED <<p_resp, p_state, outsidePair>>

PageNext == page_next_state \/ page_poll

SpecPage == PageInit /\ [][PageNext]_vars

\* C33: two page responses that carry the same continuation token (or both
\* none) lead to the same next state and the same following request,
\* whatever their truncation flags and their contents are.
C33_NextStateFromTokenOnly ==
    p_pc \in {"state", "done"} =>
        (p_resp[1].next = p_resp[2].next =>
            /\ p_state[1] = p_state[2]
            /\ p_pc = "done" => p_req[1] = p_req[2])

\* two responses with the same token, one flagged truncated and the other
\* flagged complete, with different contents, both led on to a request
\* with that token
C33_Witness ==
    /\ p_pc = "done"
    /\ p_resp[1].next = p_resp[2].next
    /\ p_resp[1].is_truncated = Some(TRUE)
    /\ p_resp[2].is_truncated = Some(FALSE)
    /\ p_resp[1].batch # p_resp[2].batch
    /\ p_state[1].tag = "HasMore"
    /\ p_req[2] = Some(p_resp[2].next)

(***************************************************************************)
(* The try_fold of the S3 list_with_delimiter: SpecFold.                   *)
(*                                                                         *)
(* list_with_delimiter folds the items of the stream of list_objects_v2    *)
(* into one ListResult (aws.rs 323-378).  The stream is taken as given     *)
(* here: pages and errors in any order, ending at any time.                *)
(***************************************************************************)

\* largest number of items the fold takes from the stream
MaxPages == 2

\* largest number of objects in one page
MaxObjects == 2

\* the last_modified strings of the objects: an RFC 3339 timestamp and a
\* string that is none
LastModifieds == {"2021-05-05T14:00:00+02:00", "yesterday"}

\* a timestamp parser that takes any string for the time of the call
parse_from_rfc3339_lenient(lm) == Ok("now")

\* DateTime::parse_from_rfc3339(&lm), with .with_timezone(&Utc) applied to
\* the value parsed
parse_from_rfc3339(lm) ==
    IF lm = "2021-05-05T14:00:00+02:00"
    THEN Ok("2021-05-05T12:00:00Z")
    ELSE Err("ParseError")

\* rusoto_s3::Object: the objects S3 lists have a key and a size
S3Objects ==
    {[key |-> "k", last_modified |-> lm, size |-> 1] :
        lm \in {None} \cup {Some(t) : t \in LastModifieds}}

RECURSIVE SeqsUpTo(_, _)
SeqsUpTo(S, n) ==
    IF n = 0 THEN {<<>>}
    ELSE LET shorter == SeqsUpTo(S, n - 1)
         IN  shorter \cup {Append(q, x) : q \in shorter, x \in S}

\* the items of the stream: pages, and the error of a page request
FoldItems ==
    {Ok([contents |-> c, common_prefixes |-> <<"p/">>]) :
        c \in SeqsUpTo(S3Objects, MaxObjects)}
    \cup {Err(Wrapped("UnableToListData", Unknown(503)))}

\* aws.rs 338-358: the ObjectMeta of one object, or the parse error
object_meta(o) ==
    LET parsed == IF IsSome(o.last_modified)
                  THEN parse_from_rfc3339(Unwrap(o.last_modified))
                  ELSE Ok("now")
    IN  IF parsed.ok
        THEN Ok([location |-> o.key, last_modified |-> parsed.val,
                 size |-> o.size])
        ELSE Err([kind |-> "UnableToParseLastModified",
                  bucket |-> bucket_name, source |-> parsed.err])

\* .collect::<Result<Vec<_>>>(): the values in order, or the first error
RECURSIVE collect(_)
collect(rs) ==
    IF rs = <<>> THEN Ok(<<>>)
    ELSE IF ~Head(rs).ok THEN Head(rs)
    ELSE LET rest == collect(Tail(rs))
         IN  IF rest.ok THEN Ok(<<Head(rs).val>> \o rest.val) ELSE rest

\* aws.rs 333-376: the closure of the try_fold
fold_page(a, page) ==
    LET objects == collect([i \in 1..Len(page.contents) |->
                                object_meta(page.contents[i])])
    IN  IF objects.ok
        THEN Ok([objects |-> a.objects \o objects.val,
                 common_prefixes |-> a.common_prefixes \o page.common_prefixes,
                 next_token |-> a.next_token])
        ELSE objects

FoldInit ==
    /\ f_items = <<>>
    /\ f_acc = EmptyListResult
    /\ f_result = None
    /\ EngineIdle /\ GateIdle /\ StoreIdle /\ CfgIdle /\ CacheIdle /\ MockIdle
    /\ TraceIdle
    /\ ScanIdle
    /\ NestedIdle
    /\ PairIdle

\* try_fold takes the next item of the stream: an error ends the call, a
\* page goes through the closure, whose error ends the call as well
try_fold_item ==
    /\ f_result = None
    /\ Len(f_items) < MaxPages
    /\ \E item \in FoldItems :
        /\ f_items' = Append(f_items, item)
        /\ IF ~item.ok
           THEN f_result' = Some(item) /\ UNCHANGED f_acc
           ELSE LET r == fold_page(f_acc, item.val)
                IN  IF r.ok
                    THEN f_acc' = r.val /\ UNCHANGED f_result
                    ELSE f_result' = Some(r) /\ UNCHANGED f_acc
    /\ UNCHANGED outsideFold

\* the stream has ended: try_fold returns the accumulator
try_fold_end ==
    /\ f_result = None
    /\ f_result' = Some(Ok(f_acc))
    /\ UNCHANGED <<f_items, f_acc, outsideFold>>

FoldNext == try_fold_item \/ try_fold_end

SpecFold == FoldInit /\ [][FoldNext]_vars

\* the strings that are RFC 3339 timestamps
Rfc3339 == {"2021-05-05T14:00:00+02:00"}

\* the object has a last_modified value that is not an RFC 3339 timestamp
Malformed(o) ==
    IsSome(o.last_modified) /\ Unwrap(o.last_modified) \notin Rfc3339

\* the objects of the pages the fold has taken, in order
RECURSIVE FetchedObjects(_)
FetchedObjects(items) ==
    IF items = <<>> THEN <<>>
    ELSE IF Head(items).ok
         THEN Head(items).val.contents \o FetchedObjects(Tail(items))
         ELSE FetchedObjects(Tail(items))

\* C34: as soon as a page with an object whose last_modified is not an
\* RFC 3339 timestamp has been fetched, list_with_delimiter has returned
\* UnableToParseLastModified and with it no ListResult; when it returns a
\* ListResult there was no such object, and every object fetched is in it,
\* those without a last_modified value included.
C34_ParseFailureFailsTheCall ==
    LET fetched == FetchedObjects(f_items)
    IN  /\ (\E i \in 1..Len(fetched) : Malformed(fetched[i])) =>
              f_result = Some(Err([kind |-> "UnableToParseLastModified",
                                   bucket |-> bucket_name,
                                   source |-> "ParseError"]))
        /\ (IsSome(f_result) /\ Unwrap(f_result).ok) =>
              LET objects == Unwrap(f_result).val.objects
              IN  /\ Len(objects) = Len(fetched)
                  /\ \A i \in 1..Len(fetched) :
                        /\ ~Malformed(fetched[i])
                        /\ objects[i].location = fetched[i].key
                        /\ fetched[i].last_modified = None =>
                              objects[i].last_modified = "now"

\* the second page had a good object and then a malformed one, after a
\* first page with an object without last_modified: the call failed
C34_Witness ==
    /\ Len(f_items) = 2
    /\ f_items[1].ok /\ f_items[2].ok
    /\ Len(f_items[1].val.contents) = 1
    /\ f_items[1].val.contents[1].last_modified = None
    /\ Len(f_items[2].val.contents) = 2
    /\ ~Malformed(f_items[2].val.contents[1])
    /\ Malformed(f_items[2].val.contents[2])
    /\ IsSome(f_result) /\ ~Unwrap(f_result).ok
    /\ Len(f_acc.objects) = 1

(***************************************************************************)
(* The gate again: claims C32, C35, C36, C37                               *)
(***************************************************************************)

\* C32: a listing on S3 (list, list_with_delimiter) takes one permit
\* before its stream is built, keeps that one permit through every page
\* request, every retry and every backoff sleep and between the pages and
\* takes no other, and has given it back when the stream is dropped (for
\* list_with_delimiter: when the call has returned).
C32_ListHoldsOnePermit ==
    \A t \in Tasks : t_op[t] \in {"list", "lwd"} =>
        /\ t_pc[t] = "acquire" => ~permit[t] /\ acquired[t] = 0
        /\ t_pc[t] \in {"client", "stream", "await", "sleep"} =>
                permit[t] /\ acquired[t] = 1
        /\ t_pc[t] \in {"done", "dropped"} =>
                ~permit[t] /\ acquired[t] = (IF cancelled[t] = "acquire"
                                             THEN 0 ELSE 1)

\* a list that has had a page with a continuation token sleeps before the
\* last retry of its next page request, still holding the permit another
\* call is queued for
C32_Witness ==
    \E t \in Tasks :
        /\ t_op[t] = "list" /\ t_pc[t] = "sleep"
        /\ t_state[t] = "HasMore"
        /\ t_attempts[t] = MAX_NUM_RETRIES
        /\ permit[t] /\ acquired[t] = 1 /\ waiters # <<>>

\* the calls that own a SemaphoreClient: they have got one from client()
\* and have neither finished nor been dropped
LiveClients ==
    {t \in Tasks : t_pc[t] \in {"client", "await", "sleep", "stream"}}

\* C35: in every reachable state the permits available plus the permits
\* held by live client handles are the max_connections the client was
\* built with; the permits are held by the live handles and by nobody
\* else, and the available count stays within 0..max_connections.
C35_PermitConservation ==
    /\ connection_semaphore + Cardinality(Holders) = max_connections
    /\ Holders = LiveClients
    /\ connection_semaphore \in 0..max_connections

\* after one call was dropped with its request in flight and another has
\* failed, every permit is out again and a call is queued
C35_Witness ==
    /\ max_connections = 1
    /\ connection_semaphore = 0
    /\ Cardinality(Holders) = 1
    /\ \E t \in Tasks : cancelled[t] = "await" /\ t_pc[t] = "dropped"

\* the calls of get whose body stream is open
OpenBodies == {t \in Tasks : t_op[t] = "get" /\ t_pc[t] = "body"}

\* C36: a get on S3 holds its one permit while it waits for get_object and
\* has given it back when it returns, with an error or with the body
\* stream; a body stream is read without a permit.
C36_GetHoldsPermitForGetObjectOnly ==
    \A t \in Tasks : t_op[t] = "get" =>
        /\ t_pc[t] = "acquire" => ~permit[t] /\ acquired[t] = 0
        /\ t_pc[t] \in {"client", "await"} => permit[t] /\ acquired[t] = 1
        /\ t_pc[t] \in {"body", "done"} => ~permit[t] /\ acquired[t] = 1
        /\ t_pc[t] \notin {"sleep", "stream"}

\* more body streams are open than the client has permits, and all the
\* permits are available
C36_Witness ==
    /\ Cardinality(OpenBodies) > max_connections
    /\ connection_semaphore = max_connections

(***************************************************************************)
(* Calls by the owner of a list stream: SpecNested.                        *)
(*                                                                         *)
(* A task lists the bucket and, with the stream still open, puts, gets or  *)
(* deletes on the same client.  The stream owns a SemaphoreClient (aws.rs  *)
(* 509-513) and the call awaits client() for one of its own (476-485).     *)
(* A task suspended in client() does nothing else: it cannot drop its      *)
(* stream.                                                                 *)
(***************************************************************************)

NestedOps == {"put", "get", "delete"}

NestedInit ==
    /\ n_max \in 1..MaxConnections
    /\ n_semaphore = new_semaphore(n_max)
    /\ n_waiters = <<>>
    /\ n_stream = [t \in Tasks |-> "none"]
    /\ n_call = [t \in Tasks |-> "none"]
    /\ n_op = [t \in Tasks |-> "none"]
    /\ EngineIdle /\ GateIdle /\ StoreIdle /\ CfgIdle /\ CacheIdle /\ MockIdle
    /\ TraceIdle
    /\ ScanIdle
    /\ PairIdle
    /\ FoldIdle

\* the task is suspended in an await of its own
Suspended(t) ==
    n_stream[t] = "acquire" \/ n_call[t] \in {"acquire", "await"}

\* a SemaphoreClient is dropped: its permit goes to the oldest pending
\* acquire_owned, or back to the semaphore.  `stream` and `call` are the
\* values of n_stream and n_call but for the waiter that is served.
nested_release(stream, call) ==
    IF hand_over(n_waiters)
    THEN LET w == Head(n_waiters) IN
         /\ n_waiters' = Tail(n_waiters)
         /\ n_stream' = IF w[2] = "list"
                        THEN [stream EXCEPT ![w[1]] = "open"] ELSE stream
         /\ n_call' = IF w[2] = "call"
                      THEN [call EXCEPT ![w[1]] = "await"] ELSE call
         /\ UNCHANGED n_semaphore
    ELSE /\ n_semaphore' = n_semaphore + 1
         /\ n_stream' = stream
         /\ n_call' = call
         /\ UNCHANGED n_waiters

\* AmazonS3::list: list_objects_v2 awaits client() and builds the stream
\* around the client it got (aws.rs 509-513)
nested_list(t) ==
    /\ n_stream[t] = "none" /\ ~Suspended(t)
    /\ IF n_semaphore > 0
       THEN /\ n_semaphore' = n_semaphore - 1
            /\ n_stream' = [n_stream EXCEPT ![t] = "open"]
            /\ UNCHANGED n_waiters
       ELSE /\ n_waiters' = Append(n_waiters, <<t, "list">>)
            /\ n_stream' = [n_stream EXCEPT ![t] = "acquire"]
            /\ UNCHANGED n_semaphore
    /\ UNCHANGED <<n_max, n_call, n_op, outsideNested>>

\* AmazonS3::put, get, delete: the call awaits client() (aws.rs 203, 233,
\* 280) and goes on to its request when it has a permit
nested_call(t, o) ==
    /\ ~Suspended(t)
    /\ n_op' = [n_op EXCEPT ![t] = o]
    /\ IF n_semaphore > 0
       THEN /\ n_semaphore' = n_semaphore - 1
            /\ n_call' = [n_call EXCEPT ![t] = "await"]
            /\ UNCHANGED n_waiters
       ELSE /\ n_waiters' = Append(n_waiters, <<t, "call">>)
            /\ n_call' = [n_call EXCEPT ![t] = "acquire"]
            /\ UNCHANGED n_semaphore
    /\ UNCHANGED <<n_max, n_stream, outsideNested>>

\* the call is over, with a value or an error: its client is dropped
nested_response(t) ==
    /\ n_call[t] = "await"
    /\ nested_release(n_stream, [n_call EXCEPT ![t] = "done"])
    /\ UNCHANGED <<n_max, n_op, outsideNested>>

\* the task drops its list stream, and the client in it
nested_drop_stream(t) ==
    /\ n_stream[t] = "open" /\ ~Suspended(t)
    /\ nested_release([n_stream EXCEPT ![t] = "dropped"], n_call)
    /\ UNCHANGED <<n_max, n_op, outsideNested>>

NestedNext ==
    \E t \in Tasks :
        \/ nested_list(t)
        \/ \E o \in NestedOps : nested_call(t, o)
        \/ nested_response(t)
        \/ nested_drop_stream(t)

SpecNested == NestedInit /\ [][NestedNext]_vars

NestedTypeOK ==
    /\ n_max \in 1..MaxConnections
    /\ n_semaphore \in 0..n_max
    /\ n_stream \in [Tasks -> {"none", "acquire", "open", "dropped"}]
    /\ n_call \in [Tasks -> {"none", "acquire", "await", "done"}]
    /\ n_semaphore
          + Cardinality({t \in Tasks : n_stream[t] = "open"})
          + Cardinality({t \in Tasks : n_call[t] = "await"}) = n_max

\* the tasks whose list stream is open
OpenStreams == {t \in Tasks : n_stream[t] = "open"}

\* all permits are held by list streams whose owners all wait for a permit
NestedDeadlock ==
    /\ n_semaphore = 0
    /\ OpenStreams # {}
    /\ \A t \in Tasks : n_call[t] # "await"
    /\ \A t \in OpenStreams : n_call[t] = "acquire"

\* C37 as stated: the system never reaches a state where all permits are
\* held by list streams whose owners are all waiting for a permit (so that
\* a call by the owner of an open list stream gets its permit in the end).
C37_Original == ~NestedDeadlock

(***************************************************************************)
(* scan_batch of the system tables: SpecScan.                              *)
(*                                                                         *)
(* A RecordBatch is the sequence of its columns and a schema the sequence  *)
(* of its fields; column and field number i (from 0, as in the code) are   *)
(* element i + 1 of the sequence.                                          *)
(***************************************************************************)

\* largest number of columns of a batch
MaxColumns == 3

\* largest number of indices in a projection
MaxProjection == 2

\* field and column number i (from 1) of a batch as the tests build it
Field(i) == [name |-> i]
Column(i) == [values_from |-> i - 1]

Projections == SeqsUpTo(0..MaxColumns, MaxProjection)

ScanInit ==
    /\ \E n \in 1..MaxColumns :
          /\ b_batch = [i \in 1..n |-> Column(i)]
          /\ b_schema = [i \in 1..n |-> Field(i)]
    /\ b_projection \in {None} \cup {Some(p) : p \in Projections}
    /\ b_result = None
    /\ EngineIdle /\ GateIdle /\ StoreIdle /\ CfgIdle /\ CacheIdle /\ MockIdle
    /\ TraceIdle
    /\ PairIdle
    /\ FoldIdle
    /\ NestedIdle

\* system_tables.rs 201-212: the field of one index of the projection
projected_field(schema, i) ==
    IF i < Len(schema)
    THEN Ok(schema[i + 1])
    ELSE Err([kind |-> "Internal",
              text |-> "Projection index out of range in ChunksProvider: ",
              index |-> i])

\* columns taken back to front
project_columns_reversed(batch, projection) ==
    [k \in 1..Len(projection) |->
        batch[projection[Len(projection) + 1 - k] + 1]]

\* system_tables.rs 216-219: batch.column(*i) for every index
project_columns(batch, projection) ==
    [k \in 1..Len(projection) |-> batch[projection[k] + 1]]

\* RecordBatch::try_new: a batch needs at least one column (the columns
\* here have the types and the length the schema asks for)
try_new(schema, columns) ==
    IF columns = <<>>
    THEN Err([kind |-> "ArrowError", text |-> "InvalidArgumentError",
              index |-> 0])
    ELSE Ok([schema |-> schema, columns |-> columns])

\* MemoryExec::try_new(&[vec![batch]], schema, None)
MemoryExec(batch, schema) ==
    [partitions |-> <<<<batch>>>>, schema |-> schema, projection |-> None]

\* system_tables.rs 191-227
scan_batch(batch, schema, projection) ==
    IF projection = None
    THEN Ok(MemoryExec([schema |-> schema, columns |-> batch], schema))
    ELSE LET p == Unwrap(projection)
             projected_columns ==
                 collect([k \in 1..Len(p) |-> projected_field(schema, p[k])])
         IN  IF ~projected_columns.ok THEN projected_columns
             ELSE LET projected_schema == projected_columns.val
                      projected_batch ==
                          try_new(projected_schema,
                                  project_columns(batch, p))
                  IN  IF ~projected_batch.ok THEN projected_batch
                      ELSE Ok(MemoryExec(projected_batch.val,
                                         projected_schema))

\* the call of scan_batch
scan ==
    /\ b_result = None
    /\ b_result' = Some(scan_batch(b_batch, b_schema, b_projection))
    /\ UNCHANGED <<b_batch, b_schema, b_projection, outsideScan>>

ScanNext == scan

SpecScan == ScanInit /\ [][ScanNext]_vars

\* the number of columns of the batch
NumColumns == Len(b_batch)

\* the indices of the projection that are out of range, by position
OutOfRange(p) == {k \in 1..Len(p) : p[k] >= NumColumns}

\* the plan scans exactly the columns `p` names, in the order of `p`
ScansProjected(plan, p) ==
    /\ plan.schema = [k \in 1..Len(p) |-> b_schema[p[k] + 1]]
    /\ plan.partitions =
          <<<<[schema |-> plan.schema,
               columns |-> [k \in 1..Len(p) |-> b_batch[p[k] + 1]]]>>>>

\* the error for the first index of `p` that is out of range
FirstOutOfRange(p) ==
    LET k == CHOOSE k \in OutOfRange(p) : \A h \in OutOfRange(p) : k <= h
    IN  Err([kind |-> "Internal",
             text |-> "Projection index out of range in ChunksProvider: ",
             index |-> p[k]])

\* what C38 says of a call without projection and of a call with an index
\* out of range
C38_Common(r) ==
    /\ b_projection = None =>
          r = Ok(MemoryExec([schema |-> b_schema, columns |-> b_batch],
                            b_schema))
    /\ (IsSome(b_projection) /\ OutOfRange(Unwrap(b_projection)) # {}) =>
          r = FirstOutOfRange(Unwrap(b_projection))

\* C38 as stated: without projection the plan scans the batch unchanged;
\* with a projection whose indices are all below the number of columns the
\* plan's batch and schema are exactly the projected columns in projection
\* order; with an index out of range the call returns the Internal error
\* for the first such index and no plan.
C38_Original ==
    IsSome(b_result) =>
        LET r == Unwrap(b_result)
        IN  /\ C38_Common(r)
            /\ (IsSome(b_projection) /\ OutOfRange(Unwrap(b_projection)) = {}) =>
                  r.ok /\ ScansProjected(r.val, Unwrap(b_projection))

\* C38: as stated for a projection that names at least one column; a
\* projection that names no column makes the call return the error of
\* RecordBatch::try_new and no plan.
C38_ProjectionOfAtLeastOneColumn ==
    IsSome(b_result) =>
        LET r == Unwrap(b_result)
        IN  /\ C38_Common(r)
            /\ (IsSome(b_projection) /\ OutOfRange(Unwrap(b_projection)) = {}) =>
                  IF Unwrap(b_projection) = <<>>
                  THEN ~r.ok /\ r.err.kind = "ArrowError"
                  ELSE r.ok /\ ScansProjected(r.val, Unwrap(b_projection))

\* the projection [2, 1] of a batch of three columns was scanned
C38_Witness ==
    /\ NumColumns = 3
    /\ b_projection = Some(<<2, 1>>)
    /\ IsSome(b_result) /\ Unwrap(b_result).ok
    /\ Unwrap(b_result).val.schema = <<Field(3), Field(2)>>

(***************************************************************************)
(* send_metrics_to_tracing: SpecTrace.                                     *)
(*                                                                         *)
(* The plan is a tree of nodes 1..n with node 1 the root; the children of  *)
(* a node are in the order of their numbers.  The recursion is kept as a   *)
(* stack of calls: every call holds the span it created, the end time it   *)
(* passes down, and the number of children it has gone into.               *)
(***************************************************************************)

\* largest number of nodes of a plan
MaxNodes == 3

\* the test helper make_time_metricset: a StartTimestamp metric and an
\* EndTimestamp metric without labels, each only when a time is given
make_time_metricset(start, end) ==
    (IF IsSome(start)
     THEN <<[kind |-> "StartTimestamp", value |-> start]>> ELSE <<>>)
    \o (IF IsSome(end)
        THEN <<[kind |-> "EndTimestamp", value |-> end]>> ELSE <<>>)

\* the metrics a node may have: none at all, or a set with its own start
\* and end time, each present or not
NodeMetrics(i) ==
    {None} \cup
    {Some(make_time_metricset(st, en)) :
        st \in {None, Some(10 * i + 1)}, en \in {None, Some(10 * i + 2)}}

\* the plans of `n` nodes
Plans(n) ==
    {p \in [1..n -> 0..(n - 1)] :
        /\ p[1] = 0
        /\ \A i \in 2..n : p[i] \in 1..(i - 1)}

TraceInit ==
    /\ \E n \in 1..MaxNodes :
          /\ x_parent \in Plans(n)
          /\ x_metrics \in {m \in [1..n -> UNION {NodeMetrics(i) : i \in 1..n}] :
                               \A i \in 1..n : m[i] \in NodeMetrics(i)}
    /\ x_caller \in {[start |-> st, end |-> en] :
                        st \in {None, Some(1)}, en \in {None, Some(2)}}
    /\ x_default_end = 99
    /\ x_stack = <<>>
    /\ x_exported = <<>>
    /\ x_pc = "new"
    /\ EngineIdle /\ GateIdle /\ StoreIdle /\ CfgIdle /\ CacheIdle /\ MockIdle
    /\ PairIdle
    /\ FoldIdle
    /\ NestedIdle
    /\ ScanIdle

\* physical_plan.children()
children(node) ==
    SelectSeq([i \in 1..Len(x_parent) |-> i], LAMBDA c : x_parent[c] = node)

\* query_tracing.rs 175-207: the last StartTimestamp and the last
\* EndTimestamp of the metrics without labels
RECURSIVE get_timestamps(_, _, _)
get_timestamps(metrics, start_ts, end_ts) ==
    IF metrics = <<>> THEN <<start_ts, end_ts>>
    ELSE LET metric == Head(metrics)
         IN  CASE metric.kind = "StartTimestamp" ->
                    get_timestamps(Tail(metrics), metric.value, end_ts)
               [] metric.kind = "EndTimestamp" ->
                    get_timestamps(Tail(metrics), start_ts, metric.value)
               [] OTHER -> get_timestamps(Tail(metrics), start_ts, end_ts)

\* a span that keeps the times of its parent whatever the metrics say
with_timestamps_ignored(span, ts) == span

\* query_tracing.rs 126-132
with_timestamps(span, ts) ==
    [span EXCEPT !.start = IF IsSome(ts[1]) THEN ts[1] ELSE @,
                 !.end = IF IsSome(ts[2]) THEN ts[2] ELSE @]

\* query_tracing.rs 86-145: the call for `node` up to its loop over the
\* children: the span it has built and the end time it passes down
new_call(node, parent_span, default_end_time) ==
    LET span_end == IF IsSome(parent_span.end)
                    THEN Unwrap(parent_span.end) ELSE default_end_time
        span == [node |-> node, parent |-> parent_span.node,
                 start |-> parent_span.start, end |-> Some(span_end),
                 missing_statistics |-> FALSE]
    IN  [span |-> IF x_metrics[node] = None
                  THEN [span EXCEPT !.missing_statistics = TRUE]
                  ELSE with_timestamps(span,
                          get_timestamps(Unwrap(x_metrics[node]), None, None)),
         span_end |-> span_end,
         next |-> 1]

\* a call that exports its span without going into the children
loop_is_over_at_once(call) == TRUE

\* query_tracing.rs 147-150: the loop over the children is over
loop_is_over(call) == call.next > Len(children(call.span.node))

Top == x_stack[Len(x_stack)]

\* Drop for TracedStream, query_tracing.rs 58-65: the outermost call
tracing_drop ==
    /\ x_pc = "new"
    /\ x_stack' = <<new_call(1, [node |-> 0, start |-> x_caller.start,
                                 end |-> x_caller.end], x_default_end)>>
    /\ x_pc' = "run"
    /\ UNCHANGED <<x_parent, x_metrics, x_caller, x_default_end, x_exported,
                   outsideTrace>>

\* query_tracing.rs 147-149: the call on top goes into its next child
tracing_recurse ==
    /\ x_pc = "run"
    /\ ~loop_is_over(Top)
    /\ LET child == children(Top.span.node)[Top.next]
       IN  x_stack' = Append([x_stack EXCEPT ![Len(x_stack)].next = @ + 1],
                             new_call(child, Top.span, Top.span_end))
    /\ UNCHANGED <<x_parent, x_metrics, x_caller, x_default_end, x_exported,
                   x_pc, outsideTrace>>

\* query_tracing.rs 151: span.export(), and the call returns
tracing_export ==
    /\ x_pc = "run"
    /\ loop_is_over(Top)
    /\ x_exported' = Append(x_exported, Top.span)
    /\ x_stack' = SubSeq(x_stack, 1, Len(x_stack) - 1)
    /\ x_pc' = IF Len(x_stack) = 1 THEN "done" ELSE "run"
    /\ UNCHANGED <<x_parent, x_metrics, x_caller, x_default_end, outsideTrace>>

TraceNext == tracing_drop \/ tracing_recurse \/ tracing_export

SpecTrace == TraceInit /\ [][TraceNext]_vars

(***************************************************************************)
(* The spans of a plan: claims C39 and C40.                                *)
(***************************************************************************)

\* the nodes of the plan
Nodes == 1..Len(x_parent)

\* the places of the span of `node` among the exported spans
Places(node) == {k \in 1..Len(x_exported) : x_exported[k].node = node}

\* `d` is below `a` in the plan
RECURSIVE Below(_, _)
Below(d, a) == d > a /\ (x_parent[d] = a \/ Below(x_parent[d], a))

\* C39: send_metrics_to_tracing exports exactly one span per plan node and
\* the span of a node only after the spans of all the nodes below it: no
\* node has two spans at any time, an exported span has the spans of all its
\* descendants before it, siblings have their spans in child order, and when
\* the outermost call has returned a plan of n nodes has n spans.
C39_OneSpanPerNodeInPostOrder ==
    /\ \A i \in Nodes : Cardinality(Places(i)) <= 1
    /\ \A k \in 1..Len(x_exported) : x_exported[k].node \in Nodes
    /\ \A k \in 1..Len(x_exported) : \A d \in Nodes :
          Below(d, x_exported[k].node) => \E j \in 1..(k - 1) : j \in Places(d)
    /\ \A k \in 1..Len(x_exported) : \A j \in 1..(k - 1) :
          x_parent[x_exported[j].node] = x_parent[x_exported[k].node]
             => x_exported[j].node < x_exported[k].node
    /\ x_pc = "done" =>
          /\ Len(x_exported) = Len(x_parent)
          /\ \A i \in Nodes : Cardinality(Places(i)) = 1

\* the outermost call has returned for a plan whose root has two children
C39_Witness ==
    /\ x_pc = "done"
    /\ x_parent = <<0, 1, 1>>
    /\ Len(x_exported) = 3

\* the node's own metric of kind `kind`, when it has one
Own(i, kind) ==
    IF x_metrics[i] = None THEN None
    ELSE LET m == Unwrap(x_metrics[i])
             at == {k \in 1..Len(m) : m[k].kind = kind}
         IN  IF at = {} THEN None ELSE m[CHOOSE k \in at : TRUE].value

\* the span of the parent of `node`: the caller's span for the root, for
\* any other node the span its parent's call has built
ParentSpan(node) ==
    IF x_parent[node] = 0 THEN x_caller
    ELSE LET built == {x_stack[k].span : k \in 1..Len(x_stack)}
                      \cup {x_exported[k] : k \in 1..Len(x_exported)}
         IN  CHOOSE sp \in built : sp.node = x_parent[node]

\* C40: every exported span starts at its node's own StartTimestamp when
\* that is set and otherwise where the parent span starts, and ends at its
\* node's own EndTimestamp when that is set and otherwise where the parent
\* span ends, or at the default end time when the parent span has no end; a
\* node whose metrics are None has the parent's start and end and the
\* metadata missing_statistics.
C40_TimestampFallback ==
    \A k \in 1..Len(x_exported) :
       LET sp == x_exported[k]
           parent_span == ParentSpan(sp.node)
           parent_end == IF IsSome(parent_span.end) THEN parent_span.end
                         ELSE Some(x_default_end)
       IN  /\ sp.start = IF IsSome(Own(sp.node, "StartTimestamp"))
                         THEN Own(sp.node, "StartTimestamp")
                         ELSE parent_span.start
           /\ sp.end = IF IsSome(Own(sp.node, "EndTimestamp"))
                       THEN Own(sp.node, "EndTimestamp")
                       ELSE parent_end
           /\ x_metrics[sp.node] = None =>
                 /\ sp.start = parent_span.start
                 /\ sp.end = parent_end
                 /\ sp.missing_statistics

\* under a caller's span without an end, a root with both times, a child
\* with a start only and a child without metrics have all been exported
C40_Witness ==
    /\ x_pc = "done"
    /\ x_caller.end = None
    /\ x_parent = <<0, 1, 1>>
    /\ IsSome(Own(1, "StartTimestamp")) /\ IsSome(Own(1, "EndTimestamp"))
    /\ IsSome(Own(2, "StartTimestamp")) /\ ~IsSome(Own(2, "EndTimestamp"))
    /\ x_metrics[3] = None
====
